---------------------------- MODULE Spec2Model ----------------------------
(***************************************************************************)
(* A model of the OpusDNS Go client's core:                                *)
(*   - the request executor (opusdns/http.go HTTPClient.Do and the legacy  *)
(*     Client.doRequest of client.go),                                     *)
(*   - zone resolution (client.go ListZones / FindZoneForFQDN),            *)
(*   - the propagation verifier (WaitForPropagation / checkDNSRecord).     *)
(* Times are in milliseconds.                                              *)
(***************************************************************************)
EXTENDS Integers, Sequences, FiniteSets, TLC

VARIABLES
    \* ---- request executor -------------------------------------------
    impl,         \* per caller: "http" (HTTPClient.Do), "legacy" (Client.doRequest), "off"
    maxRetries,   \* per caller: c.config.MaxRetries after construction
    config,       \* HTTPClient.config: [RetryWaitMin, RetryWaitMax], in milliseconds
    pc,           \* per caller: position in the retry loop
    attempt,      \* per caller: loop variable attempt
    lastErr,      \* per caller: local lastErr
    resp,         \* per caller: what the last transport call returned
    result,       \* per caller: what the executor returned
    svcErr,       \* per caller: error the service method returns after DecodeResponse
    trace,        \* per caller: history, the transport dispatches made and their outcomes
    sleeps,       \* per caller: history, the backoff delays slept
    ctxDone,      \* per caller: the caller's context is cancelled
    cancelInfo,   \* per caller: history, the state of the call when it was cancelled
    ownDeadline,  \* per caller: history, when its last 429 came and the deadline it set
    ownEarly,     \* history: a call dispatched before the deadline its last 429 set
    earlyDispatch,\* history: a dispatch was made before the recorded rate-limit deadline
    wakeAt,       \* per caller: time at which the pending timer fires
    rateLimited,  \* HTTPClient.rateLimited
    retryAfter,   \* HTTPClient.retryAfter
    now,          \* the clock
    \* ---- zone cache and resolver --------------------------------------
    serverZones,  \* the account's zones as the API lists them, in listing order
    zoneCache,    \* Client.zoneCache
    zoneCacheTime,\* Client.zoneCacheTime
    fzpc,         \* position of the FindZoneForFQDN call
    fqdn,         \* FindZoneForFQDN: the argument, and local fqdn once normalised
    fqdnArg,      \* history: the argument as the caller passed it
    page,         \* ListZones: local page
    allZones,     \* ListZones: local allZones
    zones,        \* FindZoneForFQDN: local zones (what ListZones returned)
    fzRet,        \* FindZoneForFQDN: the zone name returned
    fzErr,        \* FindZoneForFQDN: the error returned
    calls,        \* history: number of FindZoneForFQDN calls started
    requests,     \* history: the pages requested by the call in progress
    freshAtCall,  \* history: the call started less than the TTL after the last store
    \* ---- concurrent ListZones calls on one client -------------------
    lzpc,         \* per caller: position of the ListZones call
    lzPage,       \* per caller: ListZones local page
    lzAll,        \* per caller: ListZones local allZones
    lzRet,        \* per caller: what ListZones returned
    lzCalls,      \* per caller: history, number of calls started
    lzDrains,     \* history: the results of the listing drains completed so far
    lzStores,     \* history: the snapshots stored so far, each with its time
    changes,      \* history: number of times the account's zones changed
    \* ---- DNSService.ListZones calls on one client -------------------
    optsOf,       \* per caller: the ListZonesOptions value the caller passes
    optsPage,     \* per ListZonesOptions value: its field Page
    svpc,         \* per caller: position of the ListZones call
    svPage,       \* per caller: ListZones local page
    svAll,        \* per caller: ListZones local allZones
    svReqs,       \* per caller: history, the pages requested
    svRet,        \* per caller: what ListZones returned
    \* ---- propagation verifier ----------------------------------------
    variant,      \* "any" (first matching resolver) or "all" (every resolver) WaitForPropagation
    DNSResolvers, \* c.config.DNSResolvers, the resolvers being 1..DNSResolvers
    PollingInterval, \* c.config.PollingInterval, in milliseconds
    PollingTimeout,  \* c.config.PollingTimeout, in milliseconds
    wpc,          \* position of the WaitForPropagation call
    expectedValue,\* WaitForPropagation: local expectedValue
    wpAttempt,    \* WaitForPropagation: local attempt
    resolver,     \* WaitForPropagation: index of the resolver the inner loop is at
    allFound,     \* WaitForPropagation (all): local allFound
    notFoundResolvers, \* WaitForPropagation (all): local notFoundResolvers
    wpErr,        \* what WaitForPropagation returned
    started,      \* time at which the context and the ticker were created
    tickBuffered, \* a tick is waiting in ticker.C (a channel of capacity 1)
    nextTick,     \* time of the ticker's next tick
    roundMatched, \* history: resolvers that matched in the current round
    queried,      \* history: resolvers queried in the current round
    waits,        \* history: number of times the select between rounds was passed
    matchedBefore,\* history: resolvers that matched in an earlier round of the call
    slowQuery,    \* history: some query took more than a negligible time
    callerCancelled,  \* the caller of WaitForPropagation has given the call up
    roundAfterCancel, \* history: a round started after the caller gave the call up
    queryFailed,  \* history: the last query of the round failed or had a bad rcode
    \* ---- quote stripping ----------------------------------------------
    qpc,          \* position of the comparison
    qArg,         \* expectedValue as passed to WaitForPropagation
    qRecord,      \* a TXT string of the answer
    qExpected,    \* expectedValue after WaitForPropagation stripped it
    qFound,       \* what checkDNSRecord returned
    \* ---- FindZoneForFQDN probing the API for each candidate ----------
    pbpc,         \* position of the call
    pbFqdn,       \* local fqdn (trailing dot removed)
    pbI,          \* local i, the index of the first label of the candidate
    pbRet,        \* the zone name returned
    pbErr,        \* the error returned
    pbReqs,       \* history: the candidates probed, each with doRequest's error
    \* ---- UpsertTXTRecord ----------------------------------------------
    upc,          \* position of the call
    upCall,       \* history: the arguments fqdn and value, and the FindZoneForFQDN used
    upZone,       \* local zone
    upErr,        \* the error returned
    upPatches,    \* history: the PATCH requests sent, each with its zone and ops
    \* ---- storage of the slices of the caching ListZones ---------------
    nextArr,      \* the next backing array to be allocated
    cacheArr,     \* the backing array of c.zoneCache (0: nil)
    retArr,       \* the backing array of the slice returned last (0: nil or none)
    retZones      \* the slice returned last, as its caller sees it

httpVars == <<impl, maxRetries, config, pc, attempt, lastErr, resp, result, svcErr,
              trace, sleeps, ctxDone, cancelInfo, earlyDispatch, wakeAt, rateLimited,
              retryAfter, ownDeadline, ownEarly>>

zoneVars == <<serverZones, zoneCache, zoneCacheTime, fzpc, fqdn, fqdnArg, page, allZones,
              zones, fzRet, fzErr, calls, requests, freshAtCall>>

lzVars == <<lzpc, lzPage, lzAll, lzRet, lzCalls, lzDrains, lzStores, changes>>

wpVars == <<variant, DNSResolvers, PollingInterval, PollingTimeout, wpc,
            expectedValue, wpAttempt, resolver, allFound, notFoundResolvers, wpErr,
            started, tickBuffered, nextTick, roundMatched, queried, waits, matchedBefore,
            slowQuery, callerCancelled, roundAfterCancel, queryFailed>>

quoteVars == <<qpc, qArg, qRecord, qExpected, qFound>>

probeVars == <<pbpc, pbFqdn, pbI, pbRet, pbErr, pbReqs>>

upsertVars == <<upc, upCall, upZone, upErr, upPatches>>

aliasVars == <<nextArr, cacheArr, retArr, retZones>>

\* what the request executor, the zone resolver, the propagation verifier leave alone
svVars == <<optsOf, optsPage, svpc, svPage, svAll, svReqs, svRet>>

nonHttpVars ==
    <<zoneVars, lzVars, svVars, wpVars, quoteVars, probeVars, upsertVars, aliasVars>>
nonZoneVars ==
    <<httpVars, lzVars, svVars, wpVars, quoteVars, probeVars, upsertVars, aliasVars>>
nonWPVars ==
    <<httpVars, zoneVars, lzVars, svVars, quoteVars, probeVars, upsertVars, aliasVars>>
nonLZVars ==
    <<httpVars, svVars, wpVars, quoteVars, probeVars, upsertVars, aliasVars>>
nonSvVars ==
    <<httpVars, lzVars, wpVars, quoteVars, probeVars, upsertVars, aliasVars>>
nonQuoteVars ==
    <<httpVars, zoneVars, lzVars, svVars, wpVars, probeVars, upsertVars, aliasVars>>
nonProbeVars == <<httpVars, zoneCache, zoneCacheTime, fzpc, fqdn, fqdnArg, page,
                  allZones, zones, fzRet, fzErr, calls, requests, freshAtCall, lzVars,
                  svVars, wpVars, quoteVars, upsertVars, aliasVars>>
nonUpsertVars ==
    <<httpVars, zoneCache, zoneCacheTime, fzpc, fqdn, fqdnArg, page, allZones, zones,
      fzRet, fzErr, calls, requests, freshAtCall, lzVars, svVars, wpVars, quoteVars,
      probeVars, aliasVars>>
nonAliasVars ==
    <<httpVars, fzpc, fqdn, fqdnArg, page, allZones, zones, fzRet, fzErr, requests,
      freshAtCall, lzVars, svVars, wpVars, quoteVars, probeVars, upsertVars>>

vars ==
    <<httpVars, now, zoneVars, lzVars, svVars, wpVars, quoteVars, probeVars, upsertVars,
      aliasVars>>

---------------------------------------------------------------------------
\* Bounds of the model

\* Config.MaxRetries is drawn from 0..MaxRetriesBound
MaxRetriesBound == 2

\* The callers of one executor; caller 2 only runs in concurrent specifications
Callers == {1, 2}

---------------------------------------------------------------------------
\* Program constants

DefaultMaxRetries == 3
StatusTooManyRequests == 429
StatusInternalServerError == 500

\* config.go:88-94: the retry wait bounds of the client's configuration
RetryWaitMin == config.RetryWaitMin
RetryWaitMax == config.RetryWaitMax

\* client_test.go:356: WithRetryWait(10*time.Millisecond, 50*time.Millisecond)
TestRetryWait == [RetryWaitMin |-> 10, RetryWaitMax |-> 50]

\* config.go:164-170 WithRetryWait, config.go:262-270 Validate: configurations with
\* 0 <= RetryWaitMin <= RetryWaitMax; in the second the cap applies from retry 2,
\* in the third from retry 1
RetryWaitConfigs ==
    { TestRetryWait,
      [RetryWaitMin |-> 10, RetryWaitMax |-> 15],
      [RetryWaitMin |-> 10, RetryWaitMax |-> 10] }

Min(a, b) == IF a <= b THEN a ELSE b
Max(a, b) == IF a >= b THEN a ELSE b

RECURSIVE Pow2(_)
Pow2(n) == IF n <= 0 THEN 1 ELSE 2 * Pow2(n - 1)

---------------------------------------------------------------------------
\* Responses of the transport

NoHeader == [kind |-> "none"]
\* Retry-After: 1 (seconds), or an HTTP-date, here the instant 2000 of the clock
RetryAfterHeaders ==
    {NoHeader, [kind |-> "seconds", v |-> 1], [kind |-> "date", v |-> 2000]}

\* a transport-level failure (httpClient.Do returned an error)
NetErr == [status |-> 0, hdr |-> NoHeader]

Statuses == {200, 401, 404, 429, 503}

Responses ==
    {NetErr}
    \cup {[status |-> s, hdr |-> NoHeader] : s \in Statuses \ {StatusTooManyRequests}}
    \cup {[status |-> StatusTooManyRequests, hdr |-> h] : h \in RetryAfterHeaders}

NoResp == [status |-> -1, hdr |-> NoHeader]

\* errors
NilErr == [kind |-> "nil"]

\* history of a call that received no 429
NoDeadline == [at |-> 0 - 1, until |-> 0 - 1]

\* history of a context that was not cancelled
NotCancelled == [n |-> 0 - 1, t |-> 0 - 1, late |-> FALSE]
RequestError == [kind |-> "RequestError"]
CtxErr == [kind |-> "ctx"]
APIError(status) == [kind |-> "APIError", StatusCode |-> status]
MaxRetriesExceededNoWrap(e) == [kind |-> "maxRetries", wrapped |-> NilErr]

\* http.go:141 / client.go:282: fmt.Errorf("... max retries exceeded: %w", lastErr)
MaxRetriesExceeded(e) == [kind |-> "maxRetries", wrapped |-> e]

\* errors.go NewAPIError: the status code of the response is kept
NewAPIError(r) == APIError(r.status)

\* return values of Do / doRequest
Pending == [kind |-> "pending"]
RetResp(r) == [kind |-> "resp", resp |-> r, err |-> NilErr]
RetErr(e) == [kind |-> "err", resp |-> NoResp, err |-> e]

---------------------------------------------------------------------------
\* Construction

\* config.go NewConfig + WithMaxRetries keep the value given (0 disables retries);
\* client.go NewClient replaces 0 by DefaultMaxRetries
NewClientMaxRetries(i, n) ==
    IF i = "legacy" /\ n = 0 THEN DefaultMaxRetries ELSE n

LoopContinuesOffByOne(a, n) == a < n

\* http.go:90 / client.go:213: the loop condition
LoopContinues(a, n) == a <= n

DoRetriesAllErrors(s) == s >= 400

\* http.go:124,131: statuses Do retries
DoRetries(s) == s = StatusTooManyRequests \/ s >= StatusInternalServerError

\* client.go:247: success, client.go:256: retried statuses of the legacy doRequest
LegacySuccess(s) == s >= 200 /\ s < 300
LegacyRetries(s) == s = 429 \/ s >= 500

calculateBackoffUncapped(a, j) == (RetryWaitMin * Pow2(a - 1) * (550 - j)) \div 500

\* http.go:283-297 calculateBackoff, j = time.Now().UnixNano() % 100
\*   backoff = min * 2^(attempt-1), capped at max, plus backoff*0.2*(0.5 - j/100),
\*   truncated to a Duration
calculateBackoff(a, j) ==
    LET raw == RetryWaitMin * Pow2(a - 1)
        capped == IF raw > RetryWaitMax THEN RetryWaitMax ELSE raw
    IN  (capped * (550 - j)) \div 500

JitterSamples == {0, 99}

\* client.go:216: time.Duration(1<<uint(attempt-1)) * time.Second
legacyBackoff(a) == Pow2(a - 1) * 1000

\* http.go:306-316 handleRateLimit: the wait the Retry-After header asks for
retryAfterDuration(h) ==
    IF h.kind = "seconds" THEN h.v * 1000
    ELSE IF h.kind = "date" THEN h.v - now
    ELSE RetryWaitMax

\* http.go:259-279 DecodeResponse: an APIError for status >= 400
DecodeResponse(r) == IF r.status >= 400 THEN NewAPIError(r) ELSE NilErr

---------------------------------------------------------------------------
\* Strings are sequences of one-character strings

Dot == "."

\* strings.HasSuffix
HasSuffix(s, suffix) ==
    /\ Len(suffix) <= Len(s)
    /\ SubSeq(s, Len(s) - Len(suffix) + 1, Len(s)) = suffix

\* strings.TrimSuffix
TrimSuffix(s, suffix) ==
    IF HasSuffix(s, suffix) THEN SubSeq(s, 1, Len(s) - Len(suffix)) ELSE s

\* zoneCacheTTL, in milliseconds
ZoneCacheTTL == 300000

\* the zero time.Time of a new client's zoneCacheTime: longer ago than any TTL
ZeroTime == 0 - ZoneCacheTTL

\* the components that a specification does not run are in their state after NewClient
LZIdle ==
    /\ lzpc = [c \in Callers |-> "off"]
    /\ lzPage = [c \in Callers |-> 0]
    /\ lzAll = [c \in Callers |-> <<>>]
    /\ lzRet = [c \in Callers |-> Pending]
    /\ lzCalls = [c \in Callers |-> 0]
    /\ lzDrains = {}
    /\ lzStores = {}
    /\ changes = 0

SvIdle ==
    /\ optsOf = [c \in Callers |-> c]
    /\ optsPage = [o \in Callers \cup {0} |-> 0]
    /\ svpc = [c \in Callers |-> "off"]
    /\ svPage = [c \in Callers |-> 0]
    /\ svAll = [c \in Callers |-> <<>>]
    /\ svReqs = [c \in Callers |-> <<>>]
    /\ svRet = [c \in Callers |-> Pending]

ZoneIdle ==
    /\ serverZones = <<>>
    /\ zoneCache = <<>>
    /\ zoneCacheTime = ZeroTime
    /\ fzpc = "idle"
    /\ fqdn = <<>>
    /\ fqdnArg = <<>>
    /\ page = 0
    /\ allZones = <<>>
    /\ zones = <<>>
    /\ fzRet = <<>>
    /\ fzErr = NilErr
    /\ calls = 0
    /\ requests = <<>>
    /\ freshAtCall = FALSE
    /\ LZIdle
    /\ SvIdle

HttpIdle ==
    /\ impl = [c \in Callers |-> "off"]
    /\ maxRetries = [c \in Callers |-> 0]
    /\ config = TestRetryWait
    /\ pc = [c \in Callers |-> "off"]
    /\ attempt = [c \in Callers |-> 0]
    /\ lastErr = [c \in Callers |-> NilErr]
    /\ resp = [c \in Callers |-> NoResp]
    /\ result = [c \in Callers |-> Pending]
    /\ svcErr = [c \in Callers |-> NilErr]
    /\ trace = [c \in Callers |-> <<>>]
    /\ sleeps = [c \in Callers |-> <<>>]
    /\ ctxDone = [c \in Callers |-> FALSE]
    /\ cancelInfo = [c \in Callers |-> NotCancelled]
    /\ earlyDispatch = FALSE
    /\ ownDeadline = [c \in Callers |-> NoDeadline]
    /\ ownEarly = FALSE
    /\ wakeAt = [c \in Callers |-> 0]
    /\ rateLimited = FALSE
    /\ retryAfter = 0

WPIdle ==
    /\ variant = "any"
    /\ DNSResolvers = 0
    /\ PollingInterval = 0
    /\ PollingTimeout = 0
    /\ wpc = "idle"
    /\ expectedValue = <<>>
    /\ wpAttempt = 0
    /\ resolver = 0
    /\ allFound = FALSE
    /\ notFoundResolvers = <<>>
    /\ wpErr = NilErr
    /\ started = 0
    /\ tickBuffered = FALSE
    /\ nextTick = 0
    /\ roundMatched = {}
    /\ queried = <<>>
    /\ waits = 0
    /\ matchedBefore = {}
    /\ slowQuery = FALSE
    /\ callerCancelled = FALSE
    /\ roundAfterCancel = FALSE
    /\ queryFailed = FALSE

UpsertIdle ==
    /\ upc = "idle"
    /\ upCall = <<>>
    /\ upZone = <<>>
    /\ upErr = NilErr
    /\ upPatches = <<>>

AliasIdle ==
    /\ nextArr = 1
    /\ cacheArr = 0
    /\ retArr = 0
    /\ retZones = <<>>

ProbeIdle ==
    /\ pbpc = "idle"
    /\ pbFqdn = <<>>
    /\ pbI = 0
    /\ pbRet = <<>>
    /\ pbErr = NilErr
    /\ pbReqs = <<>>

QuoteIdle ==
    /\ qpc = "idle"
    /\ qArg = <<>>
    /\ qRecord = <<>>
    /\ qExpected = <<>>
    /\ qFound = FALSE

---------------------------------------------------------------------------
\* The request executor

Running(c) == pc[c] \notin {"off", "done"}

InitDo ==
    /\ \E i \in {"http", "legacy"}, n \in 0..MaxRetriesBound :
         /\ impl = [c \in Callers |-> IF c = 1 THEN i ELSE "off"]
         /\ maxRetries = [c \in Callers |-> IF c = 1 THEN NewClientMaxRetries(i, n) ELSE 0]
         /\ config \in (IF i = "http" THEN RetryWaitConfigs ELSE {TestRetryWait})
    /\ pc = [c \in Callers |-> IF c = 1 THEN "loop" ELSE "off"]
    /\ attempt = [c \in Callers |-> 0]
    /\ lastErr = [c \in Callers |-> NilErr]
    /\ resp = [c \in Callers |-> NoResp]
    /\ result = [c \in Callers |-> Pending]
    /\ svcErr = [c \in Callers |-> NilErr]
    /\ trace = [c \in Callers |-> <<>>]
    /\ sleeps = [c \in Callers |-> <<>>]
    /\ ctxDone = [c \in Callers |-> FALSE]
    /\ cancelInfo = [c \in Callers |-> NotCancelled]
    /\ earlyDispatch = FALSE
    /\ ownDeadline = [c \in Callers |-> NoDeadline]
    /\ ownEarly = FALSE
    /\ wakeAt = [c \in Callers |-> 0]
    /\ rateLimited = FALSE
    /\ retryAfter = 0
    /\ now = 0
    /\ ZoneIdle
    /\ WPIdle
    /\ QuoteIdle
    /\ ProbeIdle
    /\ UpsertIdle
    /\ AliasIdle

\* Do / doRequest return v
Return(c, v) ==
    /\ result' = [result EXCEPT ![c] = v]
    /\ pc' = [pc EXCEPT ![c] = "returned"]

\* http.go:97-106 (client.go:214-218): the delay before attempt > 0, then the request
EnterBackoff(c) ==
    IF attempt[c] > 0
    THEN \E j \in JitterSamples :
           LET delay == IF impl[c] = "http" THEN calculateBackoff(attempt[c], j)
                        ELSE legacyBackoff(attempt[c])
           IN  /\ sleeps' = [sleeps EXCEPT ![c] = Append(@, delay)]
               /\ wakeAt' = [wakeAt EXCEPT ![c] = now + delay]
               /\ pc' = [pc EXCEPT ![c] = "backoff"]
    ELSE /\ pc' = [pc EXCEPT ![c] = "request"]
         /\ UNCHANGED <<sleeps, wakeAt>>

\* http.go:90-106, 141: loop head; waitForRateLimit (http.go:321-331) up to its select
DoLoop(c) ==
    /\ pc[c] = "loop"
    /\ IF ~LoopContinues(attempt[c], maxRetries[c])
       THEN /\ Return(c, RetErr(MaxRetriesExceeded(lastErr[c])))
            /\ UNCHANGED <<sleeps, wakeAt, rateLimited>>
       ELSE IF impl[c] = "http" /\ rateLimited /\ ~(now > retryAfter)
            THEN /\ wakeAt' = [wakeAt EXCEPT ![c] = retryAfter]
                 /\ pc' = [pc EXCEPT ![c] = "ratewait"]
                 /\ UNCHANGED <<sleeps, rateLimited, result>>
            ELSE /\ rateLimited' = IF impl[c] = "http" THEN FALSE ELSE rateLimited
                 /\ EnterBackoff(c)
                 /\ UNCHANGED result
    /\ UNCHANGED <<impl, maxRetries, config, attempt, lastErr, resp, svcErr, trace, ctxDone,
                   retryAfter, now>>
    /\ UNCHANGED cancelInfo
    /\ UNCHANGED <<earlyDispatch, ownDeadline, ownEarly>>
    /\ UNCHANGED nonHttpVars

\* http.go:337-341: the rate-limit timer fired
DoRateLimitWake(c) ==
    /\ pc[c] = "ratewait"
    /\ now >= wakeAt[c]
    /\ rateLimited' = FALSE
    /\ EnterBackoff(c)
    /\ UNCHANGED <<impl, maxRetries, config, attempt, lastErr, resp, result, svcErr, trace,
                   ctxDone, retryAfter, now>>
    /\ UNCHANGED cancelInfo
    /\ UNCHANGED <<earlyDispatch, ownDeadline, ownEarly>>
    /\ UNCHANGED nonHttpVars

\* http.go:335-336, 92-94: cancelled while waiting for the rate limit
DoRateLimitCancel(c) ==
    /\ pc[c] = "ratewait"
    /\ ctxDone[c]
    /\ Return(c, RetErr(CtxErr))
    /\ UNCHANGED <<impl, maxRetries, config, attempt, lastErr, resp, svcErr, trace, sleeps,
                   ctxDone, wakeAt, rateLimited, retryAfter, now>>
    /\ UNCHANGED cancelInfo
    /\ UNCHANGED <<earlyDispatch, ownDeadline, ownEarly>>
    /\ UNCHANGED nonHttpVars

\* http.go:104 (client.go:217): the backoff delay elapsed
DoBackoffWake(c) ==
    /\ pc[c] = "backoff"
    /\ now >= wakeAt[c]
    /\ pc' = [pc EXCEPT ![c] = "request"]
    /\ UNCHANGED <<impl, maxRetries, config, attempt, lastErr, resp, result, svcErr, trace,
                   sleeps, ctxDone, wakeAt, rateLimited, retryAfter, now>>
    /\ UNCHANGED cancelInfo
    /\ UNCHANGED <<earlyDispatch, ownDeadline, ownEarly>>
    /\ UNCHANGED nonHttpVars

\* http.go:102-103: cancelled during the backoff delay (time.Sleep of the legacy
\* client cannot be cancelled)
DoBackoffCancel(c) ==
    /\ pc[c] = "backoff"
    /\ impl[c] = "http"
    /\ ctxDone[c]
    /\ Return(c, RetErr(CtxErr))
    /\ UNCHANGED <<impl, maxRetries, config, attempt, lastErr, resp, svcErr, trace, sleeps,
                   ctxDone, wakeAt, rateLimited, retryAfter, now>>
    /\ UNCHANGED cancelInfo
    /\ UNCHANGED <<earlyDispatch, ownDeadline, ownEarly>>
    /\ UNCHANGED nonHttpVars

\* http.go:109, 145-211 (client.go:240): one transport call. With the context
\* already cancelled the request fails before it is sent.
DoRequest(c) ==
    /\ pc[c] = "request"
    /\ IF ctxDone[c]
       THEN /\ resp' = [resp EXCEPT ![c] = NetErr]
            /\ UNCHANGED <<trace, earlyDispatch, ownEarly>>
       ELSE \E r \in Responses :
              /\ resp' = [resp EXCEPT ![c] = r]
              /\ trace' = [trace EXCEPT ![c] = Append(@, r)]
              /\ earlyDispatch' = (earlyDispatch \/ (impl[c] = "http" /\ now < retryAfter))
              /\ ownEarly' = (ownEarly \/ (impl[c] = "http" /\ now < ownDeadline[c].until))
    /\ pc' = [pc EXCEPT ![c] = "classify"]
    /\ UNCHANGED <<impl, maxRetries, config, attempt, lastErr, result, svcErr, sleeps, ctxDone,
                   wakeAt, rateLimited, retryAfter, now>>
    /\ UNCHANGED <<cancelInfo, ownDeadline>>
    /\ UNCHANGED nonHttpVars

Continue(c, e) ==
    /\ lastErr' = [lastErr EXCEPT ![c] = e]
    /\ attempt' = [attempt EXCEPT ![c] = @ + 1]
    /\ pc' = [pc EXCEPT ![c] = "loop"]
    /\ UNCHANGED result

CtxErrIgnored(c) == FALSE

\* http.go:114: ctx.Err() != nil
CtxErrSet(c) == ctxDone[c]

\* http.go:110-138: what Do does with the outcome of the transport call
DoClassifyHTTP(c) ==
    /\ pc[c] = "classify"
    /\ impl[c] = "http"
    /\ IF resp[c] = NetErr
       THEN /\ IF CtxErrSet(c)
               THEN /\ Return(c, RetErr(CtxErr))
                    /\ lastErr' = [lastErr EXCEPT ![c] = RequestError]
                    /\ UNCHANGED attempt
               ELSE Continue(c, RequestError)
            /\ UNCHANGED <<rateLimited, retryAfter>>
       ELSE IF DoRetries(resp[c].status)
            THEN /\ Continue(c, NewAPIError(resp[c]))
                 /\ IF resp[c].status = StatusTooManyRequests
                    THEN /\ rateLimited' = TRUE
                         /\ retryAfter' = now + retryAfterDuration(resp[c].hdr)
                    ELSE UNCHANGED <<rateLimited, retryAfter>>
            ELSE /\ Return(c, RetResp(resp[c]))
                 /\ UNCHANGED <<lastErr, attempt, rateLimited, retryAfter>>
    /\ UNCHANGED <<impl, maxRetries, config, resp, svcErr, trace, sleeps, ctxDone, wakeAt, now>>
    /\ UNCHANGED cancelInfo
    /\ ownDeadline' = IF resp[c] # NetErr /\ resp[c].status = StatusTooManyRequests
                      THEN [ownDeadline EXCEPT ![c] = [at |-> now, until |-> retryAfter']]
                      ELSE ownDeadline
    /\ UNCHANGED <<earlyDispatch, ownEarly>>
    /\ UNCHANGED nonHttpVars

\* client.go:241-279: what the legacy doRequest does with the outcome
DoClassifyLegacy(c) ==
    /\ pc[c] = "classify"
    /\ impl[c] = "legacy"
    /\ IF resp[c] = NetErr
       THEN Continue(c, RequestError)
       ELSE IF LegacySuccess(resp[c].status)
            THEN /\ Return(c, RetResp(resp[c]))
                 /\ UNCHANGED <<lastErr, attempt>>
            ELSE IF LegacyRetries(resp[c].status)
                 THEN Continue(c, APIError(resp[c].status))
                 ELSE /\ Return(c, RetErr(APIError(resp[c].status)))
                      /\ UNCHANGED <<lastErr, attempt>>
    /\ UNCHANGED <<impl, maxRetries, config, resp, svcErr, trace, sleeps, ctxDone, wakeAt,
                   rateLimited, retryAfter, now>>
    /\ UNCHANGED cancelInfo
    /\ UNCHANGED <<earlyDispatch, ownDeadline, ownEarly>>
    /\ UNCHANGED nonHttpVars

\* the service method around Do (e.g. DNSService.ListZonesPage): return Do's error,
\* else the error of DecodeResponse; the legacy callers return doRequest's error
Decode(c) ==
    /\ pc[c] = "returned"
    /\ svcErr' = [svcErr EXCEPT ![c] =
                    IF result[c].kind = "err" THEN result[c].err
                    ELSE IF impl[c] = "http" THEN DecodeResponse(result[c].resp)
                    ELSE NilErr]
    /\ pc' = [pc EXCEPT ![c] = "done"]
    /\ UNCHANGED <<impl, maxRetries, config, attempt, lastErr, resp, result, trace, sleeps,
                   ctxDone, wakeAt, rateLimited, retryAfter, now>>
    /\ UNCHANGED cancelInfo
    /\ UNCHANGED <<earlyDispatch, ownDeadline, ownEarly>>
    /\ UNCHANGED nonHttpVars

\* the last transport call of the call has returned and no attempt is left: what Do
\* returns is settled
OutcomeDecided(c) ==
    \/ /\ pc[c] = "classify"
       /\ resp[c] # NetErr
       /\ ~DoRetries(resp[c].status) \/ ~LoopContinues(attempt[c] + 1, maxRetries[c])
    \/ /\ pc[c] = "loop"
       /\ ~LoopContinues(attempt[c], maxRetries[c])

\* the caller cancels its context (only HTTPClient.Do takes one)
Cancel(c) ==
    /\ impl[c] = "http"
    /\ pc[c] \in {"loop", "ratewait", "backoff", "request", "classify"}
    /\ ~ctxDone[c]
    /\ ctxDone' = [ctxDone EXCEPT ![c] = TRUE]
    /\ cancelInfo' = [cancelInfo EXCEPT ![c] =
                        [n |-> Len(trace[c]), t |-> now, late |-> OutcomeDecided(c)]]
    /\ UNCHANGED <<impl, maxRetries, config, pc, attempt, lastErr, resp, result, svcErr, trace,
                   sleeps, wakeAt, rateLimited, retryAfter, now>>
    /\ UNCHANGED <<earlyDispatch, ownDeadline, ownEarly>>
    /\ UNCHANGED nonHttpVars

Sleeping(c) == pc[c] \in {"ratewait", "backoff"} /\ wakeAt[c] > now

\* a select of Do has a case that is ready: the context is done (http.go:102, 335)
SelectReady(c) == impl[c] = "http" /\ pc[c] \in {"ratewait", "backoff"} /\ ctxDone[c]

\* time passes up to the next timer, while no select can proceed
TimePasses ==
    /\ \E c \in Callers : Sleeping(c)
    /\ ~\E c \in Callers : SelectReady(c)
    /\ now' = CHOOSE t \in {wakeAt[c] : c \in {d \in Callers : Sleeping(d)}} :
                 \A c \in Callers : Sleeping(c) => t <= wakeAt[c]
    /\ UNCHANGED <<httpVars, nonHttpVars>>

NextDo ==
    \/ \E c \in Callers :
         \/ DoLoop(c)
         \/ DoRateLimitWake(c)
         \/ DoRateLimitCancel(c)
         \/ DoBackoffWake(c)
         \/ DoBackoffCancel(c)
         \/ DoRequest(c)
         \/ DoClassifyHTTP(c)
         \/ DoClassifyLegacy(c)
         \/ Decode(c)
         \/ Cancel(c)
    \/ TimePasses

SpecDo == InitDo /\ [][NextDo]_vars

Spec == SpecDo

---------------------------------------------------------------------------
\* Properties of the request executor

\* the failures the specification calls retryable
RetryableFailure(r) == r = NetErr \/ r.status = 429 \/ r.status >= 500
Success2xx(r) == r # NetErr /\ r.status >= 200 /\ r.status <= 299
Terminal4xx(r) == r # NetErr /\ r.status >= 400 /\ r.status <= 499 /\ r.status # 429
FailureOf(r) == IF r = NetErr THEN RequestError ELSE APIError(r.status)
Returned(c) == pc[c] \in {"returned", "done"}
AllRetryable(t) == \A i \in 1..Len(t) : RetryableFailure(t[i])

\* C1: with MaxRetries = n, when the first n transport calls fail retryably and call
\* n+1 returns a 2xx response, exactly n+1 dispatches are made and that response is
\* returned with a nil error; and the executor does not give up (without a
\* cancellation) before it has made call n+1.
C1_RetriesThenSuccess ==
    \A c \in Callers : impl[c] # "off" =>
        LET n == maxRetries[c]
            t == trace[c]
        IN  /\ (/\ Len(t) >= n + 1
                /\ \A i \in 1..n : RetryableFailure(t[i])
                /\ Success2xx(t[n + 1]))
               => /\ Len(t) = n + 1
                  /\ pc[c] \in {"classify", "returned", "done"}
                  /\ Returned(c) => (result[c].kind = "resp" /\ result[c].resp = t[n + 1]
                                     /\ result[c].err = NilErr)
            /\ (Returned(c) /\ ~ctxDone[c] /\ AllRetryable(t)) => Len(t) >= n + 1

C1_Witness ==
    /\ impl[1] = "http" /\ maxRetries[1] = 2 /\ pc[1] = "done"
    /\ Len(trace[1]) = 3
    /\ trace[1][1] = NetErr /\ trace[1][2].status = 429 /\ trace[1][3].status = 200
    /\ result[1].kind = "resp" /\ result[1].resp.status = 200 /\ svcErr[1] = NilErr

\* C2: when every transport call fails retryably and the context is not cancelled,
\* exactly MaxRetries+1 dispatches are made and the error returned is "max retries
\* exceeded" wrapping the failure of the last attempt.
C2_RetriesExhausted ==
    \A c \in Callers : (impl[c] # "off" /\ Returned(c) /\ ~ctxDone[c]
                        /\ AllRetryable(trace[c])) =>
        /\ Len(trace[c]) = maxRetries[c] + 1
        /\ result[c].kind = "err"
        /\ result[c].err.kind = "maxRetries"
        /\ result[c].err.wrapped = FailureOf(trace[c][Len(trace[c])])

C2_Witness ==
    /\ impl[1] = "http" /\ maxRetries[1] = 2 /\ pc[1] = "done" /\ ~ctxDone[1]
    /\ Len(trace[1]) = 3
    /\ trace[1][1].status = 429 /\ trace[1][2] = NetErr /\ trace[1][3].status = 503
    /\ svcErr[1] = [kind |-> "maxRetries", wrapped |-> APIError(503)]

\* C3: a 4xx response other than 429 ends the call: it is the last dispatch, no
\* backoff delay follows it, and the caller gets an APIError with that status.
C3_TerminalClientError ==
    \A c \in Callers : \A k \in 1..Len(trace[c]) : Terminal4xx(trace[c][k]) =>
        /\ k = Len(trace[c])
        /\ Len(sleeps[c]) = k - 1
        /\ pc[c] \in {"classify", "returned", "done"}
        /\ (impl[c] = "legacy" /\ Returned(c)) =>
               result[c].err = [kind |-> "APIError", StatusCode |-> trace[c][k].status]
        /\ pc[c] = "done" =>
               svcErr[c] = [kind |-> "APIError", StatusCode |-> trace[c][k].status]

C3_Witness ==
    /\ impl[1] = "http" /\ pc[1] = "done"
    /\ Len(trace[1]) = 1 /\ trace[1][1].status = 404 /\ sleeps[1] = <<>>
    /\ result[1].kind = "resp"
    /\ svcErr[1] = [kind |-> "APIError", StatusCode |-> 404]

\* Concurrent Do calls on one HTTPClient: the callers share rateLimited and retryAfter
\* under c.mu

\* Config.MaxRetries of the shared client
ConcMaxRetries == 1

InitDoConc ==
    /\ impl = [c \in Callers |-> "http"]
    /\ maxRetries = [c \in Callers |-> ConcMaxRetries]
    /\ config = TestRetryWait
    /\ pc = [c \in Callers |-> "loop"]
    /\ attempt = [c \in Callers |-> 0]
    /\ lastErr = [c \in Callers |-> NilErr]
    /\ resp = [c \in Callers |-> NoResp]
    /\ result = [c \in Callers |-> Pending]
    /\ svcErr = [c \in Callers |-> NilErr]
    /\ trace = [c \in Callers |-> <<>>]
    /\ sleeps = [c \in Callers |-> <<>>]
    /\ ctxDone = [c \in Callers |-> FALSE]
    /\ cancelInfo = [c \in Callers |-> NotCancelled]
    /\ earlyDispatch = FALSE
    /\ ownDeadline = [c \in Callers |-> NoDeadline]
    /\ ownEarly = FALSE
    /\ wakeAt = [c \in Callers |-> 0]
    /\ rateLimited = FALSE
    /\ retryAfter = 0
    /\ now = 0
    /\ ZoneIdle
    /\ WPIdle
    /\ QuoteIdle
    /\ ProbeIdle
    /\ UpsertIdle
    /\ AliasIdle

\* the steps of calls whose contexts are not cancelled
NextDoConc ==
    \/ \E c \in Callers :
         \/ DoLoop(c)
         \/ DoRateLimitWake(c)
         \/ DoBackoffWake(c)
         \/ DoRequest(c)
         \/ DoClassifyHTTP(c)
         \/ Decode(c)
    \/ TimePasses

SpecDoConc == InitDoConc /\ [][NextDoConc]_vars

\* C13: no dispatch is made before the rate-limit deadline recorded on the client at
\* that moment, whatever the interleaving of the calls sharing the client.
C13_NoEarlyDispatch == ~earlyDispatch

---------------------------------------------------------------------------
\* Backoff delays of HTTPClient.Do

\* the delay before retry k without jitter: min(RetryWaitMin * 2^(k-1), RetryWaitMax)
BaseDelay(k) == Min(RetryWaitMin * Pow2(k - 1), RetryWaitMax)

\* C17: no backoff delay that Do sleeps before a retry exceeds RetryWaitMax, whatever
\* the attempt, the configured bounds (RetryWaitMin <= RetryWaitMax) and the jitter.
C17_BackoffWithinMax == \A c \in Callers : impl[c] = "http" =>
    \A k \in 1..Len(sleeps[c]) : sleeps[c][k] <= RetryWaitMax

---------------------------------------------------------------------------
\* Zone cache and resolver (client.go:733-740, 910-998)

\* the account holds at most MaxZones zones
MaxZones == 2

\* FindZoneForFQDN is called at most MaxCalls times
MaxCalls == 2

\* the API returns at most ServerPageSize zones per page
ServerPageSize == 1

\* zone names as the API may list them (with or without the trailing dot)
ZoneNames ==
    { <<"e", ".", "c">>,
      <<"e", ".", "c", ".">>,
      <<"s", ".", "e", ".", "c">>,
      <<"n", "e", ".", "c">>,
      <<"o", ".", "g">> }

\* names callers resolve
FqdnArgs ==
    { <<"x", ".", "s", ".", "e", ".", "c">>,
      <<"x", ".", "e", ".", "c">>,
      <<"x", ".", "e", ".", "c", ".">>,
      <<"s", ".", "e", ".", "c">>,
      <<"n", "e", ".", "c">>,
      <<"e", ".", "c">>,
      <<"n", ".", "o">> }

\* a name without its trailing dot
NoDot(s) == TrimSuffix(s, <<Dot>>)

\* listings: sequences of zones with unique names
Listings ==
    {l \in UNION {[1..k -> ZoneNames] : k \in 0..MaxZones} :
        \A i, j \in 1..Len(l) : i # j => NoDot(l[i]) # NoDot(l[j])}

\* GET /v1/dns?page=p: the results of page p and pagination.has_next_page
PageResults(p) ==
    SubSeq(serverZones, (p - 1) * ServerPageSize + 1,
           Min(p * ServerPageSize, Len(serverZones)))
HasNextPage(p) == p * ServerPageSize < Len(serverZones)

\* errors doRequest may return for a page
PageFailures ==
    {APIError(401), MaxRetriesExceeded(APIError(503)), MaxRetriesExceeded(RequestError)}

\* client.go:929, 970: the wrapped listing error
ListZonesFailed(e) == [kind |-> "listFailed", wrapped |-> e]
\* client.go:974
NoZonesErr == [kind |-> "noZones"]
\* client.go:993
NoZoneFoundErr(f, n) == [kind |-> "notFound", fqdn |-> f, zones |-> n]

\* client.go:964-966, 981-983: ensure a trailing dot
WithDot(s) == IF HasSuffix(s, <<Dot>>) THEN s ELSE s \o <<Dot>>

\* client.go:913: the cache is used while it is fresh and not empty
CacheHit == now - zoneCacheTime < ZoneCacheTTL /\ Len(zoneCache) > 0

NoLengthCheck(zoneName, matchedZone) == TRUE

\* client.go:986: len(zoneName) > len(matchedZone)
Longer(zoneName, matchedZone) == Len(zoneName) > Len(matchedZone)

EmptyNotChecked(zs) == FALSE

\* client.go:973: len(zones) == 0
NoZones(zs) == Len(zs) = 0

\* client.go:978-990: the loop over the zones, from zone i on
RECURSIVE matchLoop(_, _, _, _)
matchLoop(zs, f, i, matchedZone) ==
    IF i > Len(zs) THEN matchedZone
    ELSE LET zoneName == WithDot(zs[i])
         IN  matchLoop(zs, f, i + 1,
                       IF HasSuffix(f, zoneName) /\ Longer(zoneName, matchedZone)
                       THEN zoneName ELSE matchedZone)

InitZone ==
    /\ HttpIdle
    /\ WPIdle
    /\ QuoteIdle
    /\ ProbeIdle
    /\ UpsertIdle
    /\ AliasIdle
    /\ now = 0
    /\ serverZones \in Listings
    /\ zoneCache = <<>>
    /\ zoneCacheTime = ZeroTime
    /\ fzpc = "idle"
    /\ fqdn = <<>>
    /\ fqdnArg = <<>>
    /\ page = 0
    /\ allZones = <<>>
    /\ zones = <<>>
    /\ fzRet = <<>>
    /\ fzErr = NilErr
    /\ calls = 0
    /\ requests = <<>>
    /\ freshAtCall = FALSE
    /\ LZIdle
    /\ SvIdle

\* client.go:962-968, 910-923: FindZoneForFQDN(f) up to the first page request
FindZoneForFQDN(f) ==
    /\ fzpc \in {"idle", "done"}
    /\ calls < MaxCalls
    /\ calls' = calls + 1
    /\ fqdnArg' = f
    /\ fqdn' = WithDot(f)
    /\ fzRet' = <<>>
    /\ fzErr' = NilErr
    /\ requests' = <<>>
    /\ freshAtCall' = (now - zoneCacheTime < ZoneCacheTTL)
    /\ allZones' = <<>>
    /\ IF CacheHit
       THEN /\ zones' = zoneCache
            /\ fzpc' = "match"
            /\ UNCHANGED page
       ELSE /\ zones' = <<>>
            /\ page' = 1
            /\ fzpc' = "fetch"
    /\ UNCHANGED <<serverZones, zoneCache, zoneCacheTime, nonZoneVars, now>>

PartialOnFailure(cache, all) == all

\* client.go:928-941: the returns on a failed page come before the cache is touched
CacheOnFailure(cache, all) == cache

\* client.go:925-957: one page of ListZones; after the last page the cache is replaced
ListZonesPage ==
    /\ fzpc = "fetch"
    /\ requests' = Append(requests, page)
    /\ \/ \E e \in PageFailures :
            /\ fzErr' = ListZonesFailed(e)
            /\ fzpc' = "done"
            /\ zoneCache' = CacheOnFailure(zoneCache, allZones)
            /\ UNCHANGED <<page, allZones, zones, zoneCacheTime>>
       \/ /\ allZones' = allZones \o PageResults(page)
          /\ IF HasNextPage(page)
             THEN /\ page' = page + 1
                  /\ UNCHANGED <<fzpc, zones, zoneCache, zoneCacheTime, fzErr>>
             ELSE /\ zoneCache' = allZones'
                  /\ zoneCacheTime' = now
                  /\ zones' = allZones'
                  /\ fzpc' = "match"
                  /\ UNCHANGED <<page, fzErr>>
    /\ UNCHANGED <<serverZones, fqdn, fqdnArg, fzRet, calls, freshAtCall, nonZoneVars,
                   now>>

\* client.go:973-997: the match over the zones ListZones returned
MatchZone ==
    /\ fzpc = "match"
    /\ IF NoZones(zones)
       THEN /\ fzErr' = NoZonesErr
            /\ UNCHANGED fzRet
       ELSE LET matchedZone == matchLoop(zones, fqdn, 1, <<>>)
            IN  IF matchedZone = <<>>
                THEN /\ fzErr' = NoZoneFoundErr(fqdn, Len(zones))
                     /\ UNCHANGED fzRet
                ELSE /\ fzRet' = TrimSuffix(matchedZone, <<Dot>>)
                     /\ UNCHANGED fzErr
    /\ fzpc' = "done"
    /\ UNCHANGED <<serverZones, zoneCache, zoneCacheTime, fqdn, fqdnArg, page, allZones,
                   zones, calls, requests, freshAtCall, nonZoneVars, now>>

\* time passes between two calls, half a cache TTL at a time
ZoneTimePasses ==
    /\ fzpc = "done"
    /\ calls < MaxCalls
    /\ now < ZoneCacheTTL
    /\ now' = now + ZoneCacheTTL \div 2
    /\ UNCHANGED <<zoneVars, nonZoneVars>>

NextZone ==
    \/ \E f \in FqdnArgs : FindZoneForFQDN(f)
    \/ ListZonesPage
    \/ MatchZone
    \/ ZoneTimePasses

SpecZone == InitZone /\ [][NextZone]_vars

---------------------------------------------------------------------------
\* Properties of zone resolution

\* the matching rule: the name with a trailing dot ends with the zone's name with a
\* trailing dot
ZoneMatches(z, f) == HasSuffix(NoDot(f) \o <<Dot>>, NoDot(z) \o <<Dot>>)
MatchingZones(zs, f) == {NoDot(zs[i]) : i \in {j \in 1..Len(zs) : ZoneMatches(zs[j], f)}}

\* matching on label boundaries: the name is the zone or ends with "." + zone
LabelMatches(z, f) == NoDot(f) = NoDot(z) \/ HasSuffix(NoDot(f), <<Dot>> \o NoDot(z))
LabelMatchingZones(zs, f) ==
    {NoDot(zs[i]) : i \in {j \in 1..Len(zs) : LabelMatches(zs[j], f)}}

Resolved == fzpc = "done" /\ fzErr.kind # "listFailed"

\* C4: with a non-empty snapshot in which a zone matches, FindZoneForFQDN returns the
\* longest matching zone name, without trailing dot, whatever the listing order.
C4_LongestMatch ==
    (Resolved /\ Len(zones) > 0 /\ MatchingZones(zones, fqdnArg) # {}) =>
        /\ fzErr = NilErr
        /\ fzRet \in MatchingZones(zones, fqdnArg)
        /\ \A z \in MatchingZones(zones, fqdnArg) : Len(z) <= Len(fzRet)
        /\ ~HasSuffix(fzRet, <<Dot>>)

C4_Witness ==
    /\ fzpc = "done"
    /\ zones = << <<"s", ".", "e", ".", "c">>, <<"e", ".", "c">> >>
    /\ fqdnArg = <<"x", ".", "s", ".", "e", ".", "c">>
    /\ fzRet = <<"s", ".", "e", ".", "c">>
    /\ fzErr = NilErr

\* C5: matching respects label boundaries: the zone returned is the name itself or a
\* parent of it on a label boundary; with no such zone in a non-empty snapshot the call
\* fails with zone-not-found; a name equal to a zone name resolves to that zone.
C5_LabelBoundary ==
    (Resolved /\ Len(zones) > 0) =>
        /\ fzErr = NilErr => fzRet \in LabelMatchingZones(zones, fqdnArg)
        /\ LabelMatchingZones(zones, fqdnArg) = {} => fzErr.kind = "notFound"
        /\ NoDot(fqdnArg) \in {NoDot(zones[i]) : i \in 1..Len(zones)} =>
               (fzErr = NilErr /\ fzRet = NoDot(fqdnArg))

\* C6: an empty listing fails with "no zones", never with "no zone found"; a non-empty
\* listing without a matching zone fails with "no zone found", never with "no zones".
C6_DistinctErrors ==
    Resolved =>
        /\ Len(zones) = 0 => fzErr.kind = "noZones"
        /\ (Len(zones) > 0 /\ MatchingZones(zones, fqdnArg) = {}) => fzErr.kind = "notFound"
        /\ fzErr.kind = "noZones" => Len(zones) = 0
        /\ fzErr.kind = "notFound" => (Len(zones) > 0 /\ MatchingZones(zones, fqdnArg) = {})

C6_Witness ==
    /\ fzpc = "done"
    /\ serverZones = <<>> /\ zones = <<>> /\ requests = <<1>>
    /\ fzErr = [kind |-> "noZones"]
    /\ fzRet = <<>>

---------------------------------------------------------------------------
\* Concurrent ListZones calls on one client (client.go:910-958): each call has its own
\* page and allZones, the calls share zoneCache and zoneCacheTime under zoneCacheMu

\* the account's zones change at most MaxChanges times
MaxChanges == 1

ZonesResult(z) == [kind |-> "zones", zones |-> z]

\* the listings of an account whose zones are among two names
ConcZoneNames == {<<"e", ".", "c">>, <<"s", ".", "e", ".", "c">>}
ConcListings ==
    {l \in UNION {[1..k -> ConcZoneNames] : k \in 0..MaxZones} :
        \A i, j \in 1..Len(l) : i # j => l[i] # l[j]}

InitListConc ==
    /\ HttpIdle
    /\ WPIdle
    /\ QuoteIdle
    /\ ProbeIdle
    /\ UpsertIdle
    /\ AliasIdle
    /\ now = 0
    /\ serverZones \in ConcListings
    /\ zoneCache = <<>>
    /\ zoneCacheTime = ZeroTime
    /\ fzpc = "idle"
    /\ fqdn = <<>>
    /\ fqdnArg = <<>>
    /\ page = 0
    /\ allZones = <<>>
    /\ zones = <<>>
    /\ fzRet = <<>>
    /\ fzErr = NilErr
    /\ calls = 0
    /\ requests = <<>>
    /\ freshAtCall = FALSE
    /\ lzpc = [c \in Callers |-> "idle"]
    /\ lzPage = [c \in Callers |-> 0]
    /\ lzAll = [c \in Callers |-> <<>>]
    /\ lzRet = [c \in Callers |-> Pending]
    /\ lzCalls = [c \in Callers |-> 0]
    /\ lzDrains = {}
    /\ lzStores = {}
    /\ changes = 0
    /\ SvIdle

FilledInPlace(cache, all) == all

\* client.go:921, 943: the pages are gathered in the local allZones; the cache is not
\* touched before the drain is over
CacheDuringDrain(cache, all) == cache

\* client.go:910-923: the cache check under the read lock; a hit returns a copy
ListZonesCall(c) ==
    /\ lzpc[c] \in {"idle", "done"}
    /\ lzCalls[c] < MaxCalls
    /\ lzCalls' = [lzCalls EXCEPT ![c] = @ + 1]
    /\ lzAll' = [lzAll EXCEPT ![c] = <<>>]
    /\ IF CacheHit
       THEN /\ lzRet' = [lzRet EXCEPT ![c] = ZonesResult(zoneCache)]
            /\ lzpc' = [lzpc EXCEPT ![c] = "done"]
            /\ UNCHANGED lzPage
       ELSE /\ lzRet' = [lzRet EXCEPT ![c] = Pending]
            /\ lzPage' = [lzPage EXCEPT ![c] = 1]
            /\ lzpc' = [lzpc EXCEPT ![c] = "fetch"]
    /\ UNCHANGED <<lzDrains, lzStores, changes>>
    /\ UNCHANGED <<zoneVars, nonLZVars, now>>

\* client.go:925-949: one page of the drain
ListZonesFetch(c) ==
    /\ lzpc[c] = "fetch"
    /\ \/ \E e \in PageFailures :
            /\ lzRet' = [lzRet EXCEPT ![c] = RetErr(ListZonesFailed(e))]
            /\ lzpc' = [lzpc EXCEPT ![c] = "done"]
            /\ UNCHANGED <<lzPage, lzAll, lzDrains, zoneCache>>
       \/ LET all == lzAll[c] \o PageResults(lzPage[c])
          IN  /\ lzAll' = [lzAll EXCEPT ![c] = all]
              /\ zoneCache' = CacheDuringDrain(zoneCache, all)
              /\ IF HasNextPage(lzPage[c])
                 THEN /\ lzPage' = [lzPage EXCEPT ![c] = @ + 1]
                      /\ UNCHANGED <<lzpc, lzDrains>>
                 ELSE /\ lzpc' = [lzpc EXCEPT ![c] = "store"]
                      /\ lzDrains' = lzDrains \cup {all}
                      /\ UNCHANGED lzPage
              /\ UNCHANGED lzRet
    /\ UNCHANGED <<lzCalls, lzStores, changes>>
    /\ UNCHANGED <<serverZones, zoneCacheTime, fzpc, fqdn, fqdnArg, page, allZones, zones,
                   fzRet, fzErr, calls, requests, freshAtCall, nonLZVars, now>>

\* client.go:951-957: the cache and its time are replaced under the write lock
ListZonesStore(c) ==
    /\ lzpc[c] = "store"
    /\ zoneCache' = lzAll[c]
    /\ zoneCacheTime' = now
    /\ lzStores' = lzStores \cup {[zones |-> lzAll[c], t |-> now]}
    /\ lzRet' = [lzRet EXCEPT ![c] = ZonesResult(lzAll[c])]
    /\ lzpc' = [lzpc EXCEPT ![c] = "done"]
    /\ UNCHANGED <<lzPage, lzAll, lzCalls, lzDrains, changes>>
    /\ UNCHANGED <<serverZones, fzpc, fqdn, fqdnArg, page, allZones, zones,
                   fzRet, fzErr, calls, requests, freshAtCall, nonLZVars, now>>

\* the account gains or loses zones
ServerChanges ==
    /\ changes < MaxChanges
    /\ changes' = changes + 1
    /\ serverZones' \in ConcListings \ {serverZones}
    /\ UNCHANGED <<lzpc, lzPage, lzAll, lzRet, lzCalls, lzDrains, lzStores>>
    /\ UNCHANGED <<zoneCache, zoneCacheTime, fzpc, fqdn, fqdnArg, page, allZones, zones,
                   fzRet, fzErr, calls, requests, freshAtCall, nonLZVars, now>>

\* time passes until the cache has expired
ListTimePasses ==
    /\ now < ZoneCacheTTL
    /\ now' = now + ZoneCacheTTL
    /\ UNCHANGED <<zoneVars, lzVars, nonLZVars>>

NextListConc ==
    \/ \E c \in Callers :
         \/ ListZonesCall(c)
         \/ ListZonesFetch(c)
         \/ ListZonesStore(c)
    \/ ServerChanges
    \/ ListTimePasses

SpecListConc == InitListConc /\ [][NextListConc]_vars

\* C14: whatever the interleaving, the zones a call returns are the complete result of
\* one listing drain, the cache never holds a partly filled listing, and the cache time
\* is the time at which the cached snapshot was stored.
C14_WholeSnapshots ==
    /\ \A c \in Callers : lzRet[c].kind = "zones" => lzRet[c].zones \in lzDrains
    /\ zoneCache \in lzDrains \cup {<<>>}
    /\ \/ zoneCache = <<>> /\ zoneCacheTime = ZeroTime
       \/ [zones |-> zoneCache, t |-> zoneCacheTime] \in lzStores

\* caller 2 is served the stored snapshot while caller 1's drain is half way
C14_Witness ==
    /\ lzpc[1] = "fetch" /\ lzPage[1] = 2 /\ Len(lzAll[1]) = 1
    /\ lzpc[2] = "done" /\ lzCalls[2] = 2
    /\ lzRet[2] = ZonesResult(zoneCache)
    /\ Len(zoneCache) = 2

---------------------------------------------------------------------------
\* DNSService.ListZones (unnamed/part_006:69-97; Client.ListZones of client.go:1422-1447
\* is the same loop without options). A caller passes its own options value, or nil
\* (a fresh value per page), or the value 0 that it shares with the other caller; the
\* loop writes its page into the value and ListZonesPage reads it from there.

SharedOpts == 0

InitSvc ==
    /\ HttpIdle
    /\ WPIdle
    /\ QuoteIdle
    /\ ProbeIdle
    /\ UpsertIdle
    /\ AliasIdle
    /\ LZIdle
    /\ now = 0
    /\ serverZones \in ConcListings
    /\ zoneCache = <<>>
    /\ zoneCacheTime = ZeroTime
    /\ fzpc = "idle"
    /\ fqdn = <<>>
    /\ fqdnArg = <<>>
    /\ page = 0
    /\ allZones = <<>>
    /\ zones = <<>>
    /\ fzRet = <<>>
    /\ fzErr = NilErr
    /\ calls = 0
    /\ requests = <<>>
    /\ freshAtCall = FALSE
    /\ optsOf \in [Callers -> Callers \cup {SharedOpts}]
    /\ \A c \in Callers : optsOf[c] \in {c, SharedOpts}
    /\ optsPage = [o \in Callers \cup {SharedOpts} |-> 0]
    /\ svpc = [c \in Callers |-> "idle"]
    /\ svPage = [c \in Callers |-> 0]
    /\ svAll = [c \in Callers |-> <<>>]
    /\ svReqs = [c \in Callers |-> <<>>]
    /\ svRet = [c \in Callers |-> Pending]

StopsAfterFirstPage(hasNextPage) == TRUE

\* part_006:90: if !resp.Pagination.HasNextPage { break }
DrainOver(hasNextPage) == ~hasNextPage

\* part_006:70-71: var allZones; page := 1
SvcListZones(c) ==
    /\ svpc[c] = "idle"
    /\ svPage' = [svPage EXCEPT ![c] = 1]
    /\ svAll' = [svAll EXCEPT ![c] = <<>>]
    /\ svpc' = [svpc EXCEPT ![c] = "set"]
    /\ UNCHANGED <<optsOf, optsPage, svReqs, svRet>>
    /\ UNCHANGED <<zoneVars, nonSvVars, now>>

\* part_006:74-81: pageOpts.Page = page
SvcSetPage(c) ==
    /\ svpc[c] = "set"
    /\ optsPage' = [optsPage EXCEPT ![optsOf[c]] = svPage[c]]
    /\ svpc' = [svpc EXCEPT ![c] = "request"]
    /\ UNCHANGED <<optsOf, svPage, svAll, svReqs, svRet>>
    /\ UNCHANGED <<zoneVars, nonSvVars, now>>

\* part_006:83-93: ListZonesPage(ctx, pageOpts) requests the page that the options
\* value holds; then the results are appended and the loop ends or goes on
SvcListZonesPage(c) ==
    /\ svpc[c] = "request"
    /\ LET p == optsPage[optsOf[c]]
       IN  /\ svReqs' = [svReqs EXCEPT ![c] = Append(@, p)]
           /\ \/ \E e \in PageFailures :
                   /\ svRet' = [svRet EXCEPT ![c] = RetErr(e)]
                   /\ svpc' = [svpc EXCEPT ![c] = "done"]
                   /\ UNCHANGED <<svPage, svAll>>
              \/ /\ svAll' = [svAll EXCEPT ![c] = @ \o PageResults(p)]
                 /\ IF DrainOver(HasNextPage(p))
                    THEN /\ svRet' = [svRet EXCEPT ![c] = ZonesResult(svAll'[c])]
                         /\ svpc' = [svpc EXCEPT ![c] = "done"]
                         /\ UNCHANGED svPage
                    ELSE /\ svPage' = [svPage EXCEPT ![c] = @ + 1]
                         /\ svpc' = [svpc EXCEPT ![c] = "set"]
                         /\ UNCHANGED svRet
    /\ UNCHANGED <<optsOf, optsPage>>
    /\ UNCHANGED <<zoneVars, nonSvVars, now>>

NextSvc ==
    \E c \in Callers :
        \/ SvcListZones(c)
        \/ SvcSetPage(c)
        \/ SvcListZonesPage(c)

SpecSvc == InitSvc /\ [][NextSvc]_vars

\* the callers pass one options value
OptsShared == optsOf[1] = optsOf[2]

\* pages 1..k in order, each once, k the first page without a next page
InOrder(reqs) ==
    /\ \A i \in 1..Len(reqs) : reqs[i] = i
    /\ \A i \in 1..(Len(reqs) - 1) : HasNextPage(i)

\* the results of pages 1..k one after the other
RECURSIVE PagesUpTo(_)
PagesUpTo(k) == IF k <= 0 THEN <<>> ELSE PagesUpTo(k - 1) \o PageResults(k)

WholeListing(c) ==
    /\ InOrder(svReqs[c])
    /\ svRet[c].kind = "zones" =>
          /\ ~HasNextPage(Len(svReqs[c]))
          /\ svRet[c].zones = PagesUpTo(Len(svReqs[c]))
          /\ svRet[c].zones = serverZones

\* C16: a ListZones call (whose options value no concurrent call uses) requests the
\* pages 1, 2, ..., k in order, each once, k being the first page without a next page,
\* requests no page after it and returns the results of these pages in page order.
C16_PagesInOrder ==
    ~OptsShared => \A c \in Callers : WholeListing(c)

C16_Witness ==
    /\ ~OptsShared
    /\ svpc[1] = "done" /\ svpc[2] = "done"
    /\ svReqs[1] = <<1, 2>>
    /\ Len(serverZones) = 2
    /\ svRet[1] = ZonesResult(serverZones)

\* C19: whatever the interleaving, and whether or not the callers pass the same
\* options value, each call requests its pages in order, none skipped and none twice,
\* and returns the whole listing.
C19_ConcurrentListZones ==
    \A c \in Callers : WholeListing(c)

\* C15: a call made less than the cache TTL after a listing was stored returns the
\* stored snapshot and requests no page, whatever the snapshot holds; a call made at or
\* after the TTL drains the listing again.
C15_CacheReuse ==
    fzpc \in {"fetch", "match", "done"} =>
        /\ freshAtCall => (requests = <<>> /\ fzpc # "fetch" /\ zones = zoneCache)
        /\ ~freshAtCall => (requests # <<>> \/ fzpc = "fetch")

---------------------------------------------------------------------------
\* Propagation verifier: WaitForPropagation polling every resolver until all of them
\* (unnamed/part_003:15-100) or any of them (unnamed/part_002:430-506) answers the
\* expected TXT value

\* at most MaxResolvers resolvers are configured
MaxResolvers == 2

\* a query that takes a negligible time takes at most QuickQuery milliseconds
QuickQuery == 1

\* dns.Client{Timeout: 5 * time.Second}, in milliseconds
QueryTimeout == 5000

Quote == "\""

\* strings.TrimLeft and strings.TrimRight with a cutset of one character
RECURSIVE TrimLeft(_, _)
TrimLeft(s, c) == IF Len(s) > 0 /\ Head(s) = c THEN TrimLeft(Tail(s), c) ELSE s

RECURSIVE TrimRight(_, _)
TrimRight(s, c) ==
    IF Len(s) > 0 /\ s[Len(s)] = c THEN TrimRight(SubSeq(s, 1, Len(s) - 1), c) ELSE s

TrimLeftOnly(s, c) == TrimLeft(s, c)

\* strings.Trim with a cutset of one character: every leading and trailing c goes
Trim(s, c) == TrimRight(TrimLeft(s, c), c)

Quoted(v) == <<Quote>> \o v \o <<Quote>>

\* <<PollingInterval, PollingTimeout>> in milliseconds: a short timeout that is not a
\* multiple of the interval, a timeout below the interval, and the defaults 6s / 60s
PollingConfigs == { <<10, 35>>, <<10, 5>>, <<6000, 60000>> }

Value == <<"v">>
Other == <<"w">>

\* expectedValue as callers pass it
ExpectedArgs == {Value, Quoted(Value)}

\* what a resolver answers: Exchange fails, an Rcode other than success, or the TXT
\* strings of the answer section
TxtAnswers == { <<>>, <<Value>>, <<Quoted(Value)>>, <<Other>>, <<Other, Value>> }
Answers ==
    {[kind |-> "error", txt |-> <<>>], [kind |-> "rcode", txt |-> <<>>]}
        \cup {[kind |-> "ok", txt |-> t] : t \in TxtAnswers}

\* how long an Exchange takes
QueryTimes == {QuickQuery, QueryTimeout}

QueryErr == [kind |-> "DNS query failed"]
TimeoutErr(via, n, missing) ==
    [kind |-> "timeout", via |-> via, attempts |-> n, missing |-> missing]

\* checkDNSRecord: (found, err)
checkDNSRecord(expected, a) ==
    [found |-> /\ a.kind = "ok"
               /\ \E i \in 1..Len(a.txt) : Trim(a.txt[i], Quote) = expected,
     err   |-> IF a.kind = "error" THEN QueryErr ELSE NilErr]

maxAttemptsShort(timeout, interval) == timeout \div interval - 1

\* maxAttempts := int(c.config.PollingTimeout / c.config.PollingInterval)
maxAttempts(timeout, interval) == timeout \div interval

FoundAnyNever(r) == FALSE

\* any: if err == nil && found { return nil }
FoundAny(r) == r.err = NilErr /\ r.found

MissingUnlessError(r) == r.err = NilErr /\ ~r.found

\* all: if err != nil || !found
Missing(r) == r.err # NilErr \/ ~r.found

QuorumOfNone(found, n) == found

QuorumNotChecked(found, n) == n > 0

\* all: if allFound && len(c.config.DNSResolvers) > 0 { return nil }
Quorum(found, n) == found /\ n > 0

InitWP ==
    /\ HttpIdle
    /\ ZoneIdle
    /\ QuoteIdle
    /\ ProbeIdle
    /\ UpsertIdle
    /\ AliasIdle
    /\ now = 0
    /\ variant \in {"any", "all"}
    /\ DNSResolvers \in 1..MaxResolvers
    /\ \E cfg \in PollingConfigs :
         /\ PollingInterval = cfg[1]
         /\ PollingTimeout = cfg[2]
    /\ wpc = "idle"
    /\ expectedValue = <<>>
    /\ wpAttempt = 0
    /\ resolver = 0
    /\ allFound = FALSE
    /\ notFoundResolvers = <<>>
    /\ wpErr = NilErr
    /\ started = 0
    /\ tickBuffered = FALSE
    /\ nextTick = 0
    /\ roundMatched = {}
    /\ queried = <<>>
    /\ waits = 0
    /\ matchedBefore = {}
    /\ slowQuery = FALSE
    /\ callerCancelled = FALSE
    /\ roundAfterCancel = FALSE
    /\ queryFailed = FALSE

\* the clock reaches t: the ticker has put a tick in its channel if the channel was
\* empty and a tick fell due, and its next tick stays on the grid of the interval
Elapse(t) ==
    /\ now' = t
    /\ tickBuffered' = (tickBuffered \/ nextTick <= t)
    /\ nextTick' = IF nextTick <= t
                   THEN nextTick + ((t - nextTick) \div PollingInterval + 1) * PollingInterval
                   ELSE nextTick

\* WaitForPropagation(fqdn, e) up to the loop: the expected value loses its quotes,
\* the context gets its deadline, the ticker starts
WaitForPropagation(e) ==
    /\ wpc = "idle"
    /\ expectedValue' = Trim(e, Quote)
    /\ started' = now
    /\ tickBuffered' = FALSE
    /\ nextTick' = now + PollingInterval
    /\ wpAttempt' = 0
    /\ wpc' = "loop"
    /\ UNCHANGED <<variant, DNSResolvers, PollingInterval, PollingTimeout, resolver,
                   allFound, notFoundResolvers, wpErr, roundMatched, queried, waits,
                   matchedBefore, slowQuery, now>>
    /\ UNCHANGED <<callerCancelled, roundAfterCancel>>
    /\ UNCHANGED queryFailed
    /\ UNCHANGED nonWPVars

\* the top of the loop: attempt++, and the round's locals
StartRound ==
    /\ wpc = "loop"
    /\ wpAttempt' = wpAttempt + 1
    /\ allFound' = TRUE
    /\ notFoundResolvers' = <<>>
    /\ resolver' = 1
    /\ roundMatched' = {}
    /\ matchedBefore' = matchedBefore \cup roundMatched
    /\ queried' = <<>>
    /\ wpc' = "query"
    /\ UNCHANGED <<variant, DNSResolvers, PollingInterval, PollingTimeout,
                   expectedValue, wpErr, started, tickBuffered, nextTick, waits,
                   slowQuery, now>>
    /\ roundAfterCancel' = (roundAfterCancel \/ callerCancelled)
    /\ queryFailed' = FALSE
    /\ UNCHANGED callerCancelled
    /\ UNCHANGED nonWPVars

\* one pass of the loop over the resolvers: checkDNSRecord answers a after d
\* milliseconds
QueryResolver(a, d) ==
    /\ wpc = "query"
    /\ resolver <= DNSResolvers
    /\ LET r == checkDNSRecord(expectedValue, a)
           matched == r.err = NilErr /\ r.found
       IN  /\ Elapse(now + d)
           /\ slowQuery' = (slowQuery \/ d > QuickQuery)
           /\ queried' = Append(queried, resolver)
           /\ roundMatched' = IF matched THEN roundMatched \cup {resolver} ELSE roundMatched
           /\ queryFailed' = (a.kind # "ok")
           /\ IF variant = "any"
              THEN /\ IF FoundAny(r)
                      THEN /\ wpErr' = NilErr
                           /\ wpc' = "done"
                           /\ UNCHANGED resolver
                      ELSE /\ resolver' = resolver + 1
                           /\ UNCHANGED <<wpErr, wpc>>
                   /\ UNCHANGED <<allFound, notFoundResolvers>>
              ELSE /\ IF Missing(r)
                      THEN /\ allFound' = FALSE
                           /\ notFoundResolvers' = Append(notFoundResolvers, resolver)
                      ELSE UNCHANGED <<allFound, notFoundResolvers>>
                   /\ resolver' = resolver + 1
                   /\ UNCHANGED <<wpErr, wpc>>
    /\ UNCHANGED <<variant, DNSResolvers, PollingInterval, PollingTimeout,
                   expectedValue, wpAttempt, started, waits, matchedBefore>>
    /\ UNCHANGED <<callerCancelled, roundAfterCancel>>
    /\ UNCHANGED nonWPVars

\* after the loop over the resolvers: the all variant returns nil on a full round
EndRound ==
    /\ wpc = "query"
    /\ resolver > DNSResolvers
    /\ IF variant = "all" /\ Quorum(allFound, DNSResolvers)
       THEN /\ wpErr' = NilErr
            /\ wpc' = "done"
       ELSE /\ wpc' = "select"
            /\ UNCHANGED wpErr
    /\ UNCHANGED <<variant, DNSResolvers, PollingInterval, PollingTimeout,
                   expectedValue, wpAttempt, resolver, allFound, notFoundResolvers,
                   started, tickBuffered, nextTick, roundMatched, queried, waits,
                   matchedBefore, slowQuery, now>>
    /\ UNCHANGED <<callerCancelled, roundAfterCancel>>
    /\ UNCHANGED queryFailed
    /\ UNCHANGED nonWPVars

\* context.WithTimeout(context.Background(), c.config.PollingTimeout)
Deadline == started + PollingTimeout

\* the time at which the select proceeds: at once if a case is ready, else when the
\* first of the next tick and the deadline comes
SelectTime ==
    IF tickBuffered \/ now >= Deadline THEN now ELSE Min(nextTick, Deadline)

\* select: case <-ctx.Done()
SelectCtxDone ==
    /\ wpc = "select"
    /\ Deadline <= SelectTime
    /\ Elapse(SelectTime)
    /\ waits' = waits + 1
    /\ wpErr' = TimeoutErr("ctx", wpAttempt, notFoundResolvers)
    /\ wpc' = "done"
    /\ UNCHANGED <<variant, DNSResolvers, PollingInterval, PollingTimeout,
                   expectedValue, wpAttempt, resolver, allFound, notFoundResolvers,
                   started, roundMatched, queried, matchedBefore, slowQuery>>
    /\ UNCHANGED <<callerCancelled, roundAfterCancel>>
    /\ UNCHANGED queryFailed
    /\ UNCHANGED nonWPVars

\* select: case <-ticker.C
SelectTick ==
    /\ wpc = "select"
    /\ tickBuffered \/ nextTick <= SelectTime
    /\ now' = SelectTime
    /\ tickBuffered' = FALSE
    /\ nextTick' = IF nextTick <= SelectTime THEN nextTick + PollingInterval ELSE nextTick
    /\ waits' = waits + 1
    /\ IF wpAttempt >= maxAttempts(PollingTimeout, PollingInterval)
       THEN /\ wpErr' = TimeoutErr("ticker", wpAttempt, notFoundResolvers)
            /\ wpc' = "done"
       ELSE /\ wpc' = "loop"
            /\ UNCHANGED wpErr
    /\ UNCHANGED <<variant, DNSResolvers, PollingInterval, PollingTimeout,
                   expectedValue, wpAttempt, resolver, allFound, notFoundResolvers,
                   started, roundMatched, queried, matchedBefore, slowQuery>>
    /\ UNCHANGED <<callerCancelled, roundAfterCancel>>
    /\ UNCHANGED queryFailed
    /\ UNCHANGED nonWPVars

NextWP ==
    \/ \E e \in ExpectedArgs : WaitForPropagation(e)
    \/ StartRound
    \/ \E a \in Answers, d \in QueryTimes : QueryResolver(a, d)
    \/ EndRound
    \/ SelectCtxDone
    \/ SelectTick

SpecWP == InitWP /\ [][NextWP]_vars

\* the goroutine running the call is scheduled until the call returns
SpecWPFair == SpecWP /\ WF_vars(NextWP)

\* The caller gives the call up. WaitForPropagation(fqdn, expectedValue string) has
\* no parameter through which it could learn of it: its context is derived from
\* context.Background().
CallerCancels ==
    /\ wpc \in {"loop", "query", "select"}
    /\ ~callerCancelled
    /\ callerCancelled' = TRUE
    /\ UNCHANGED <<variant, DNSResolvers, PollingInterval, PollingTimeout, wpc,
                   expectedValue, wpAttempt, resolver, allFound, notFoundResolvers,
                   wpErr, started, tickBuffered, nextTick, roundMatched, queried, waits,
                   matchedBefore, slowQuery, roundAfterCancel, queryFailed, now>>
    /\ UNCHANGED nonWPVars

NextWPCancel ==
    \/ NextWP
    \/ CallerCancels

\* WaitForPropagation with a caller that may give up
SpecWPCancel == InitWP /\ [][NextWPCancel]_vars

---------------------------------------------------------------------------
\* Properties of the propagation verifier

AllResolvers == 1..DNSResolvers
Succeeded == wpc = "done" /\ wpErr = NilErr
TimedOut == wpc = "done" /\ wpErr.kind = "timeout"

\* the quorum of the variant, over the answers of the current round
QuorumHolds ==
    IF variant = "any" THEN roundMatched # {} ELSE roundMatched = AllResolvers

\* C7: the all variant returns success only at the end of a round in which every
\* configured resolver answered the expected value, and it does return success at the
\* end of such a round; matches of earlier rounds do not count.
C7_AllQuorum ==
    (variant = "all" /\ wpAttempt > 0 /\ wpc \in {"loop", "select", "done"}) =>
        /\ Succeeded <=> roundMatched = AllResolvers
        /\ queried = [i \in AllResolvers |-> i]

\* resolver 1 matched in an earlier round, resolver 2 in none before round 3
C7_Witness ==
    /\ variant = "all" /\ DNSResolvers = 2
    /\ Succeeded
    /\ wpAttempt = 3
    /\ matchedBefore = {1}
    /\ roundMatched = {1, 2}

\* C8: the any variant returns success as soon as a resolver matches: the resolvers
\* after it are not queried, no select between rounds follows the match, and the call
\* is over.
C8_AnyReturnsAtOnce ==
    (variant = "any" /\ roundMatched # {}) =>
        /\ Succeeded
        /\ roundMatched = {resolver}
        /\ queried = [i \in 1..resolver |-> i]
        /\ waits = wpAttempt - 1
        /\ ~ENABLED NextWP

C8_Witness ==
    /\ variant = "any" /\ DNSResolvers = 2
    /\ Succeeded
    /\ wpAttempt = 2
    /\ roundMatched = {1}
    /\ queried = <<1>>
    /\ waits = 1

\* the rounds a call makes when the quorum never holds
C9_Rounds ==
    LET floor == PollingTimeout \div PollingInterval
    IN  /\ wpc = "done" => (wpAttempt >= 1 /\ Len(queried) >= 1)
        /\ (wpc = "done" /\ ~QuorumHolds) => TimedOut
        /\ (TimedOut /\ ~slowQuery) =>
              /\ floor <= wpAttempt /\ wpAttempt <= floor + 1
              /\ (PollingInterval = 10 /\ PollingTimeout = 35) => wpAttempt \in 3..4
              /\ (PollingInterval = 6000 /\ PollingTimeout = 60000) => wpAttempt = 10
        /\ wpAttempt <= floor + 1
        /\ wpc = "done" \/ ENABLED NextWP

\* C9: when the quorum holds in no round the call ends with a timeout error, after at
\* least floor(timeout/interval) and at most floor(timeout/interval)+1 rounds if no
\* query took more than a negligible time (3 to 4 rounds for 10ms/35ms, 10 rounds for
\* 6s/60s); it never returns before the first round and always returns.
C9_Timeout == [](C9_Rounds) /\ <>(wpc = "done")

C9_Witness ==
    /\ TimedOut
    /\ ~slowQuery
    /\ PollingInterval = 10 /\ PollingTimeout = 35
    /\ DNSResolvers = 2
    /\ wpAttempt = 3
    /\ roundMatched = {}

---------------------------------------------------------------------------
\* Quote stripping: the comparison of WaitForPropagation's expectedValue with a TXT
\* string of the answer, over all strings up to a length

\* values without surrounding quotes have at most MaxLen characters
MaxLen == 2

QuoteAlphabet == {"a", Quote}

Strings(n) == UNION {[1..k -> QuoteAlphabet] : k \in 0..n}

InitQuote ==
    /\ HttpIdle
    /\ ZoneIdle
    /\ WPIdle
    /\ ProbeIdle
    /\ UpsertIdle
    /\ AliasIdle
    /\ now = 0
    /\ qpc = "arg"
    /\ qArg \in Strings(MaxLen + 2)
    /\ qRecord \in Strings(MaxLen + 2)
    /\ qExpected = <<>>
    /\ qFound = FALSE

\* WaitForPropagation: expectedValue = strings.Trim(expectedValue, "\"")
StripExpected ==
    /\ qpc = "arg"
    /\ qExpected' = Trim(qArg, Quote)
    /\ qpc' = "stripped"
    /\ UNCHANGED <<qArg, qRecord, qFound>>
    /\ UNCHANGED <<nonQuoteVars, now>>

\* checkDNSRecord on an answer whose TXT string is qRecord
CompareRecord ==
    /\ qpc = "stripped"
    /\ qFound' = checkDNSRecord(qExpected, [kind |-> "ok", txt |-> <<qRecord>>]).found
    /\ qpc' = "compared"
    /\ UNCHANGED <<qArg, qRecord, qExpected>>
    /\ UNCHANGED <<nonQuoteVars, now>>

NextQuote ==
    \/ StripExpected
    \/ CompareRecord

SpecQuote == InitQuote /\ [][NextQuote]_vars

\* v neither starts nor ends with a quote
Unquoted(v) == Len(v) = 0 \/ (v[1] # Quote /\ v[Len(v)] # Quote)

\* C10: for every value v without surrounding quotes, the expected values v and "v"
\* both match a TXT string v and a TXT string "v"; stripping the quotes a second time
\* changes nothing.
C10_QuoteInsensitive ==
    /\ qpc = "compared" =>
          \A v \in Strings(MaxLen) :
              (Unquoted(v) /\ qArg \in {v, Quoted(v)} /\ qRecord \in {v, Quoted(v)})
                  => qFound
    /\ qpc \in {"stripped", "compared"} =>
          /\ Trim(qExpected, Quote) = qExpected
          /\ Trim(Trim(qRecord, Quote), Quote) = Trim(qRecord, Quote)

C10_Witness ==
    /\ qpc = "compared"
    /\ qArg = Quoted(<<"a">>)
    /\ qRecord = <<"a">>
    /\ qExpected = <<"a">>
    /\ qFound

---------------------------------------------------------------------------
\* Cancellation of the propagation verifier

\* C12: after the caller cancels, WaitForPropagation starts no further round and what
\* it returns is a cancellation error, distinct from the propagation timeout.
C12_CallerCancellation ==
    callerCancelled =>
        /\ ~roundAfterCancel
        /\ wpc = "done" => wpErr.kind = "cancelled"


---------------------------------------------------------------------------
\* Failing queries in the propagation verifier

\* the call returned an error
Failed == wpc = "done" /\ wpErr # NilErr

---------------------------------------------------------------------------
\* Outcomes of the propagation verifier

C22_NoRoundAfterTimeout ==
    ~(wpc = "query" /\ queried = <<>> /\ wpAttempt > 1 /\ now > Deadline)

\* the resolvers named by a list
Named(list) == {list[i] : i \in 1..Len(list)}

\* C23: the timeout error carries the number of rounds attempted and names exactly
\* the resolvers whose query in the last round failed or did not match, once each, on
\* the deadline path and on the round-limit path.
C23_TimeoutReport ==
    TimedOut =>
        /\ wpErr.attempts = wpAttempt
        /\ Named(wpErr.missing) = AllResolvers \ roundMatched
        /\ Len(wpErr.missing) = Cardinality(Named(wpErr.missing))

---------------------------------------------------------------------------
\* FindZoneForFQDN probing the API for each candidate (client.go:322-356)

\* the positions of the dots of a name
Dots(s) == {k \in 1..Len(s) : s[k] = Dot}

\* client.go:325: len(strings.Split(fqdn, "."))
NumParts(s) == Cardinality(Dots(s)) + 1

\* client.go:329: strings.Join(parts[i:], "."), what follows the i-th dot
Candidate(s, i) ==
    LET d == CHOOSE k \in Dots(s) : Cardinality({j \in Dots(s) : j <= k}) = i
    IN  SubSeq(s, d + 1, Len(s))

\* the account has a zone of that name
IsZone(name) == \E k \in 1..Len(serverZones) : NoDot(serverZones[k]) = name

\* client.go:332: what doRequest("GET", "/v1/dns/"+candidate) returns as its error: nil
\* with the zone's document, 404 when there is no such zone, or a failure of the API
ProbeOutcomes(name) ==
    (IF IsZone(name) THEN {NilErr} ELSE {APIError(404)}) \cup PageFailures

\* client.go:355
ProbeNoZoneErr(f) == [kind |-> "notFound", fqdn |-> f]

InitProbe ==
    /\ HttpIdle
    /\ WPIdle
    /\ QuoteIdle
    /\ ProbeIdle
    /\ UpsertIdle
    /\ AliasIdle
    /\ LZIdle
    /\ SvIdle
    /\ now = 0
    /\ serverZones \in Listings
    /\ zoneCache = <<>>
    /\ zoneCacheTime = ZeroTime
    /\ fzpc = "idle"
    /\ fqdn = <<>>
    /\ fqdnArg = <<>>
    /\ page = 0
    /\ allZones = <<>>
    /\ zones = <<>>
    /\ fzRet = <<>>
    /\ fzErr = NilErr
    /\ calls = 0
    /\ requests = <<>>
    /\ freshAtCall = FALSE

\* client.go:322-328: the trailing dot is removed, the loop starts at i = 1
ProbeFindZoneForFQDN(f) ==
    /\ pbpc = "idle"
    /\ pbFqdn' = TrimSuffix(f, <<Dot>>)
    /\ pbI' = 1
    /\ pbpc' = "probe"
    /\ UNCHANGED <<pbRet, pbErr, pbReqs>>
    /\ UNCHANGED <<serverZones, nonProbeVars, now>>

\* client.go:328-353: one pass of the loop; any error of doRequest leads to the next
\* candidate, a zone document returns the candidate
ProbeCandidate ==
    /\ pbpc = "probe"
    /\ pbI < NumParts(pbFqdn)
    /\ LET candidate == Candidate(pbFqdn, pbI)
       IN  \E e \in ProbeOutcomes(candidate) :
             /\ pbReqs' = Append(pbReqs, [candidate |-> candidate, err |-> e])
             /\ IF e # NilErr
                THEN /\ pbI' = pbI + 1
                     /\ UNCHANGED <<pbpc, pbRet>>
                ELSE /\ pbRet' = candidate
                     /\ pbpc' = "done"
                     /\ UNCHANGED pbI
    /\ UNCHANGED <<pbFqdn, pbErr>>
    /\ UNCHANGED <<serverZones, nonProbeVars, now>>

\* client.go:355: the loop is over
ProbeNoZone ==
    /\ pbpc = "probe"
    /\ ~(pbI < NumParts(pbFqdn))
    /\ pbErr' = ProbeNoZoneErr(pbFqdn)
    /\ pbpc' = "done"
    /\ UNCHANGED <<pbFqdn, pbI, pbRet, pbReqs>>
    /\ UNCHANGED <<serverZones, nonProbeVars, now>>

NextProbe ==
    \/ \E f \in FqdnArgs : ProbeFindZoneForFQDN(f)
    \/ ProbeCandidate
    \/ ProbeNoZone

SpecProbe == InitProbe /\ [][NextProbe]_vars

\* C24: an API failure met while resolving the zone (a terminal 4xx such as 401, or
\* exhausted retries) is what FindZoneForFQDN returns, with its status: the failing
\* request is the last one of the call, no zone is returned and the error returned
\* is or wraps the failure.
C24_FailureReturned ==
    pbpc = "done" =>
        \A k \in 1..Len(pbReqs) : pbReqs[k].err \in PageFailures =>
            /\ k = Len(pbReqs)
            /\ pbRet = <<>>
            /\ pbErr \in {pbReqs[k].err, ListZonesFailed(pbReqs[k].err)}

---------------------------------------------------------------------------
\* The rate-limit deadline

\* no response of any call so far was a 429
No429Yet ==
    \A c \in Callers : \A k \in 1..Len(trace[c]) :
        trace[c][k].status # StatusTooManyRequests

\* C25: a 429 with Retry-After: s sets the deadline to the time of the response plus s
\* seconds, one with an HTTP-date sets it to that date; the call that received the 429
\* makes its next dispatch no earlier than that deadline; and as long as no 429 came
\* the deadline is the one the client was built with.
C25_RetryAfterDeadline ==
    /\ \A c \in Callers :
         (impl[c] = "http" /\ pc[c] \in {"loop", "ratewait", "backoff", "request"}
            /\ resp[c].status = StatusTooManyRequests) =>
              /\ resp[c].hdr.kind = "seconds" =>
                   ownDeadline[c].until = ownDeadline[c].at + 1000 * resp[c].hdr.v
              /\ resp[c].hdr.kind = "date" => ownDeadline[c].until = resp[c].hdr.v
    /\ ~ownEarly
    /\ No429Yet => (retryAfter = 0 /\ ~rateLimited)

---------------------------------------------------------------------------
\* The cache when a page fails

\* the cached snapshot or its time changes in the step
CacheChanges == zoneCache' # zoneCache \/ zoneCacheTime' # zoneCacheTime

\* C26: a step in which a page fails ends the call with an error and leaves the cached
\* snapshot and its time as they were; the cache changes only in the step that
\* receives the last page, every page 1..k having been fetched, and then to the whole
\* listing with the time of that step.
C26_CacheFrame ==
    [][ /\ (fzpc = "fetch" /\ fzpc' = "done") =>
              /\ fzErr'.kind = "listFailed"
              /\ ~CacheChanges
        /\ CacheChanges =>
              /\ fzpc = "fetch" /\ fzpc' = "match" /\ fzErr' = NilErr
              /\ requests' = [k \in 1..Len(requests') |-> k]
              /\ ~HasNextPage(Len(requests'))
              /\ zoneCache' = serverZones
              /\ zoneCacheTime' = now ]_vars

\* the second call finds the snapshot of the first call stale, fetches page 1, fails
\* on page 2, and the snapshot and its time are those of the first call
C26_Witness ==
    /\ calls = 2 /\ fzpc = "done" /\ fzErr.kind = "listFailed"
    /\ requests = <<1, 2>>
    /\ Len(zoneCache) = 2 /\ zoneCache = serverZones
    /\ zoneCacheTime = 0 /\ now >= ZoneCacheTTL

---------------------------------------------------------------------------
\* UpsertTXTRecord (client.go:411-440, 1053-1084)

\* config.go:18, client.go:40
DefaultTTL == 60

\* strings.HasPrefix
HasPrefix(s, prefix) == Len(prefix) <= Len(s) /\ SubSeq(s, 1, Len(prefix)) = prefix

\* client.go:962-997: what FindZoneForFQDN returns for f when the listing succeeds
ResolveListing(f) ==
    LET m == matchLoop(serverZones, WithDot(f), 1, <<>>)
    IN  IF NoZones(serverZones) THEN [zone |-> <<>>, err |-> NoZonesErr]
        ELSE IF m = <<>>
             THEN [zone |-> <<>>, err |-> NoZoneFoundErr(WithDot(f), Len(serverZones))]
             ELSE [zone |-> TrimSuffix(m, <<Dot>>), err |-> NilErr]

\* client.go:322-356: what FindZoneForFQDN returns for f when every probe is answered
ResolveProbing(f) ==
    LET g == TrimSuffix(f, <<Dot>>)
        hits == {k \in 1..(NumParts(g) - 1) : IsZone(Candidate(g, k))}
    IN  IF hits = {} THEN [zone |-> <<>>, err |-> ProbeNoZoneErr(g)]
        ELSE [zone |-> Candidate(g, CHOOSE k \in hits : \A j \in hits : k <= j),
              err |-> NilErr]

\* client.go:1060-1064: the record name, fqdn without the zone suffix
RecordName(f, zone) ==
    LET recordName == TrimSuffix(f, <<Dot>>)
        zoneFQDN == zone \o <<Dot>>
    IN  IF HasSuffix(recordName \o <<Dot>>, zoneFQDN)
        THEN TrimSuffix(recordName, <<Dot>> \o zone)
        ELSE recordName

\* client.go:1067-1069: the value is quoted unless it starts with a quote
QuoteValue(v) == IF ~HasPrefix(v, <<Quote>>) THEN Quoted(v) ELSE v

\* client.go:1071-1081
UpsertOp(f, v, zone) ==
    [op |-> "upsert", name |-> RecordName(f, zone), type |-> "TXT", ttl |-> DefaultTTL,
     rdata |-> QuoteValue(v)]

PatchFailed(e) == [kind |-> "patchFailed", wrapped |-> e]

InitUpsert ==
    /\ HttpIdle
    /\ WPIdle
    /\ QuoteIdle
    /\ ProbeIdle
    /\ UpsertIdle
    /\ AliasIdle
    /\ LZIdle
    /\ SvIdle
    /\ now = 0
    /\ serverZones \in Listings
    /\ zoneCache = <<>>
    /\ zoneCacheTime = ZeroTime
    /\ fzpc = "idle"
    /\ fqdn = <<>>
    /\ fqdnArg = <<>>
    /\ page = 0
    /\ allZones = <<>>
    /\ zones = <<>>
    /\ fzRet = <<>>
    /\ fzErr = NilErr
    /\ calls = 0
    /\ requests = <<>>
    /\ freshAtCall = FALSE

\* client.go:1053-1057: UpsertTXTRecord(f, v) up to the zone; via is the variant of
\* FindZoneForFQDN the client has
UpsertTXTRecord(f, v, via) ==
    /\ upc = "idle"
    /\ upCall' = [fqdn |-> f, value |-> v, via |-> via]
    /\ LET r == IF via = "listing" THEN ResolveListing(f) ELSE ResolveProbing(f)
       IN  IF r.err # NilErr
           THEN /\ upErr' = r.err
                /\ upc' = "done"
                /\ UNCHANGED upZone
           ELSE /\ upZone' = r.zone
                /\ upc' = "patch"
                /\ UNCHANGED upErr
    /\ UNCHANGED upPatches
    /\ UNCHANGED <<serverZones, nonUpsertVars, now>>

\* client.go:1059-1083, 1030-1049: the op is built and PatchRRSets sends it
PatchRRSets ==
    /\ upc = "patch"
    /\ upPatches' = Append(upPatches,
                           [zone |-> TrimSuffix(upZone, <<Dot>>),
                            ops  |-> <<UpsertOp(upCall.fqdn, upCall.value, upZone)>>])
    /\ \E e \in {NilErr} \cup PageFailures :
         upErr' = IF e = NilErr THEN NilErr ELSE PatchFailed(e)
    /\ upc' = "done"
    /\ UNCHANGED <<upCall, upZone>>
    /\ UNCHANGED <<serverZones, nonUpsertVars, now>>

NextUpsert ==
    \/ \E f \in FqdnArgs, v \in ExpectedArgs, via \in {"listing", "probing"} :
         UpsertTXTRecord(f, v, via)
    \/ PatchRRSets

SpecUpsert == InitUpsert /\ [][NextUpsert]_vars

\* C27: when the FQDN resolves to a zone Z, UpsertTXTRecord sends one PATCH, to Z, with
\* one op: an upsert of type TXT with the configured TTL, whose name N satisfies
\* N + "." + Z = the FQDN without its trailing dot, and whose data is the value in one
\* pair of double quotes.
C27_UpsertPatch ==
    (upc = "done" /\ upZone # <<>>) =>
        /\ Len(upPatches) = 1
        /\ upPatches[1].zone = upZone
        /\ Len(upPatches[1].ops) = 1
        /\ LET o == upPatches[1].ops[1]
           IN  /\ o.op = "upsert" /\ o.type = "TXT" /\ o.ttl = DefaultTTL
               /\ o.name \o <<Dot>> \o upZone = TrimSuffix(upCall.fqdn, <<Dot>>)
               /\ o.rdata = Quoted(Trim(upCall.value, Quote))

---------------------------------------------------------------------------
\* Responses returned by HTTPClient.Do

\* part_009:131-133 APIError.IsRetryable
IsRetryable(status) ==
    status = StatusTooManyRequests \/ status >= StatusInternalServerError

\* C28: a response that Do returns with a nil error has a status that is neither 429
\* nor >= 500; the statuses Do retries are those for which IsRetryable is true: every
\* response followed by another dispatch had such a status, a response with such a
\* status is never returned but retried until the attempts are used up, and the two
\* tests agree on every status code.
C28_ReturnedStatus ==
    /\ \A s \in 100..599 : DoRetries(s) <=> IsRetryable(s)
    /\ \A c \in Callers : impl[c] = "http" =>
         /\ (Returned(c) /\ result[c].kind = "resp") =>
              /\ result[c].err = NilErr
              /\ ~IsRetryable(result[c].resp.status)
         /\ \A k \in 1..Len(trace[c]) :
              /\ k < Len(trace[c]) =>
                   (trace[c][k] = NetErr \/ IsRetryable(trace[c][k].status))
              /\ (trace[c][k] # NetErr /\ IsRetryable(trace[c][k].status)
                    /\ k = Len(trace[c]) /\ Returned(c)) =>
                   /\ result[c].kind = "err"
                   /\ ctxDone[c] \/ k = maxRetries[c] + 1

\* a 503 was retried and the 404 that followed was returned with a nil error
C28_Witness ==
    /\ impl[1] = "http" /\ pc[1] = "returned"
    /\ Len(trace[1]) = 2 /\ trace[1][1].status = 503 /\ trace[1][2].status = 404
    /\ result[1].kind = "resp" /\ result[1].resp.status = 404 /\ result[1].err = NilErr

---------------------------------------------------------------------------
\* Storage of the slices of the caching ListZones (client.go:910-958)

\* what a caller writes over the name of a zone it was returned
Scribble == <<"x">>

InitAlias ==
    /\ HttpIdle
    /\ WPIdle
    /\ QuoteIdle
    /\ ProbeIdle
    /\ UpsertIdle
    /\ AliasIdle
    /\ LZIdle
    /\ SvIdle
    /\ now = 0
    /\ serverZones \in Listings
    /\ zoneCache = <<>>
    /\ zoneCacheTime = ZeroTime
    /\ fzpc = "idle"
    /\ fqdn = <<>>
    /\ fqdnArg = <<>>
    /\ page = 0
    /\ allZones = <<>>
    /\ zones = <<>>
    /\ fzRet = <<>>
    /\ fzErr = NilErr
    /\ calls = 0
    /\ requests = <<>>
    /\ freshAtCall = FALSE

\* make([]Zone, n) and append allocate a backing array unless there is no element
Allocated(z) == IF Len(z) = 0 THEN 0 ELSE nextArr

\* client.go:912-918: a hit returns a copy of the cache in an array of its own
AliasListZonesHit ==
    /\ calls < MaxCalls
    /\ CacheHit
    /\ calls' = calls + 1
    /\ retZones' = zoneCache
    /\ retArr' = Allocated(zoneCache)
    /\ nextArr' = nextArr + 1
    /\ UNCHANGED <<serverZones, zoneCache, zoneCacheTime, cacheArr, nonAliasVars, now>>

\* client.go:921-957: a miss drains the listing into allZones, stores allZones in the
\* cache and returns allZones
AliasListZonesMiss ==
    /\ calls < MaxCalls
    /\ ~CacheHit
    /\ calls' = calls + 1
    /\ zoneCache' = serverZones
    /\ zoneCacheTime' = now
    /\ cacheArr' = Allocated(serverZones)
    /\ retZones' = serverZones
    /\ retArr' = Allocated(serverZones)
    /\ nextArr' = nextArr + 1
    /\ UNCHANGED <<serverZones, nonAliasVars, now>>

\* the caller writes to element k of the slice it was returned; the write lands in the
\* backing array, and so in every slice that has that array
CallerModifies(k) ==
    /\ retArr # 0
    /\ k \in 1..Len(retZones)
    /\ retZones[k] # Scribble
    /\ retZones' = [retZones EXCEPT ![k] = Scribble]
    /\ zoneCache' = IF cacheArr = retArr THEN [zoneCache EXCEPT ![k] = Scribble]
                    ELSE zoneCache
    /\ UNCHANGED <<serverZones, zoneCacheTime, calls, nextArr, cacheArr, retArr,
                   nonAliasVars, now>>

\* the cache ages by its TTL
AliasTimePasses ==
    /\ calls < MaxCalls
    /\ now < ZoneCacheTTL
    /\ now' = now + ZoneCacheTTL
    /\ UNCHANGED <<zoneVars, nonZoneVars>>

NextAlias ==
    \/ AliasListZonesHit
    \/ AliasListZonesMiss
    \/ \E k \in 1..MaxZones : CallerModifies(k)
    \/ AliasTimePasses

SpecAlias == InitAlias /\ [][NextAlias]_vars

\* C29: the slice ListZones returns has no storage in common with the cached
\* snapshot, after a hit and after a miss, so whatever a caller writes into it the
\* cache holds the listing as it was fetched.
C29_NoSharedStorage ==
    /\ retArr # 0 => retArr # cacheArr
    /\ zoneCache \in {<<>>, serverZones}

---------------------------------------------------------------------------
\* The all-resolvers verifier of a client whose resolver list is empty (part_003:36-51)

\* a client of the all-resolvers verifier with no resolver or with one
InitWPEmpty ==
    /\ HttpIdle
    /\ ZoneIdle
    /\ QuoteIdle
    /\ ProbeIdle
    /\ UpsertIdle
    /\ AliasIdle
    /\ now = 0
    /\ variant = "all"
    /\ DNSResolvers \in {0, 1}
    /\ \E cfg \in PollingConfigs :
         /\ PollingInterval = cfg[1]
         /\ PollingTimeout = cfg[2]
    /\ wpc = "idle"
    /\ expectedValue = <<>>
    /\ wpAttempt = 0
    /\ resolver = 0
    /\ allFound = FALSE
    /\ notFoundResolvers = <<>>
    /\ wpErr = NilErr
    /\ started = 0
    /\ tickBuffered = FALSE
    /\ nextTick = 0
    /\ roundMatched = {}
    /\ queried = <<>>
    /\ waits = 0
    /\ matchedBefore = {}
    /\ slowQuery = FALSE
    /\ callerCancelled = FALSE
    /\ roundAfterCancel = FALSE
    /\ queryFailed = FALSE

\* the goroutine running the call is scheduled until the call returns
SpecWPEmpty == InitWPEmpty /\ [][NextWP]_vars /\ WF_vars(NextWP)

\* C30: with an empty resolver list the all-resolvers WaitForPropagation never returns
\* nil: a round over no resolver leaves allFound true and still goes to the select,
\* and the call returns a timeout error that names no resolver.
C30_EmptyListTimesOut ==
    /\ [](DNSResolvers = 0 =>
            /\ ~Succeeded
            /\ wpc = "done" => (TimedOut /\ wpErr.missing = <<>>)
            /\ wpc = "select" => (allFound /\ queried = <<>>))
    /\ (DNSResolvers = 0) ~> TimedOut

\* a round over no resolver was made and the call timed out
C30_Witness ==
    /\ DNSResolvers = 0
    /\ variant = "all"
    /\ wpAttempt >= 1
    /\ allFound
    /\ TimedOut
===========================================================================
